---------------------------- MODULE Spec2Model ----------------------------
(***************************************************************************)
(* Human/AI hand-off protocol of the Google Chat components:               *)
(*   ThreadKeyGenerator      (thread_key_generator.py)                     *)
(*   GoogleChatHumanTakeover (google_chat_human_takeover.py)               *)
(*   GoogleChatSender        (google_chat_sender.py)                       *)
(* over a Firestore document store and a Pub/Sub subscription.             *)
(*                                                                         *)
(* Python strings are modelled as tuples of one-character strings so that  *)
(* strip(), lower(), split(",") and the substring test `in` are computed.  *)
(***************************************************************************)
EXTENDS Integers, Sequences, FiniteSets, TLC

\* ------------------------------------------------------------------ bounds
\* Largest value of the wall clock (minutes).
MaxTime == 2
\* Number of Chat events published to the subscription in one behaviour.
MaxPublished == 2

\* ------------------------------------------------------- string utilities
Whitespace == {" "}

UpperToLower ==
    [c \in {"A", "I", "H"} |-> CASE c = "A" -> "a" [] c = "I" -> "i" [] c = "H" -> "h"]

\* str.lower()
Lower(s) ==
    [i \in 1..Len(s) |-> IF s[i] \in DOMAIN UpperToLower THEN UpperToLower[s[i]] ELSE s[i]]

RECURSIVE LStrip(_)
LStrip(s) ==
    IF s # <<>> /\ Head(s) \in Whitespace THEN LStrip(Tail(s)) ELSE s

RECURSIVE RStrip(_)
RStrip(s) ==
    IF s # <<>> /\ s[Len(s)] \in Whitespace THEN RStrip(SubSeq(s, 1, Len(s) - 1)) ELSE s

\* str.strip()
Strip(s) == RStrip(LStrip(s))

\* the Python substring test `sub in s`
Contains(sub, s) ==
    \E i \in 0..(Len(s) - Len(sub)) : SubSeq(s, i + 1, i + Len(sub)) = sub

RECURSIVE SplitFrom(_, _, _)
SplitFrom(s, sep, cur) ==
    IF s = <<>> THEN <<cur>>
    ELSE IF Head(s) = sep THEN <<cur>> \o SplitFrom(Tail(s), sep, <<>>)
    ELSE SplitFrom(Tail(s), sep, Append(cur, Head(s)))

\* str.split(sep) for a one-character separator
Split(s, sep) == SplitFrom(s, sep, <<>>)

\* ------------------------------------------------------------ value sets
\* A timestamp field that is None or absent.
NoTime == -1
\* A last_human_activity string that datetime.fromisoformat rejects.
Malformed == -2
\* The empty string as a stored thread key or a missing thread_keys document.
NoKey == ""

S1 == <<"s", "1">>
\* Document ids of the thread_keys collection.
Sessions == {S1}
\* session_id values a Message input can carry ("" , whitespace, padded, plain).
MessageSessionIds == {<<>>, <<" ">>, <<" ">> \o S1, S1}
\* session_id values of the flow graph.
GraphSessionIds == {<<>>, S1}
\* The values random.choices can produce for a thread key.
Keys == {"K1", "K2"}

VARIABLES
    now,         \* wall clock, datetime.now(timezone.utc)
    threadKeys,  \* Firestore collection thread_keys: session id -> thread_key
    control,     \* Firestore collection conversation_control: thread key -> document
    queue,       \* unacknowledged messages of the Pub/Sub subscription
    published,   \* number of events published so far
    gen,         \* the ThreadKeyGenerator invocation in progress
    prevGen,     \* outcome of the invocation before, if a ThreadKeyGenerator's
    rt,          \* the GoogleChatHumanTakeover invocation in progress
    cgen,        \* ThreadKeyGenerator invocations running concurrently, per process
    crt,         \* GoogleChatHumanTakeover invocations running concurrently, per process
    chist,       \* history of the concurrent router invocations
    tr,          \* the GooglePubSubTrigger invocation in progress
    wk,          \* the ChatWorker polling iteration in progress
    snd,         \* the GoogleChatSender invocation in progress
    thread_cache, \* GoogleChatSender._thread_cache: cache key -> thread name
    calc,        \* the last call of a helper method on its own: arguments and result
    rcv          \* the GoogleChatReceiver._fetch_messages call in progress

vars == <<now, threadKeys, control, queue, published, gen, prevGen, rt, cgen, crt, chist,
          tr, wk, snd, thread_cache, calc, rcv>>

\* The invocations that run beside the one-at-a-time ThreadKeyGenerator and
\* GoogleChatHumanTakeover invocations; no step of those two touches them.
elsewhere == <<cgen, crt, chist, tr, wk, snd, thread_cache, calc, rcv>>
\* What a concurrent ThreadKeyGenerator invocation leaves alone, besides
\* the stores and the queue; and what a concurrent router invocation does.
besideCGen == <<gen, prevGen, rt, crt, chist, tr, wk, snd, thread_cache, calc, rcv>>
besideCRt == <<gen, prevGen, rt, cgen, tr, wk, snd, thread_cache, calc, rcv>>
\* What a GooglePubSubTrigger invocation and a ChatWorker iteration leave
\* alone, besides the queue.
besideTr == <<now, threadKeys, control, gen, prevGen, rt, cgen, crt, chist, wk, snd,
              thread_cache, calc, rcv>>
besideWk == <<now, threadKeys, control, gen, prevGen, rt, cgen, crt, chist, tr, snd,
              thread_cache, calc, rcv>>
\* What a GoogleChatSender invocation leaves alone, besides its cache.
besideSnd == <<now, threadKeys, control, queue, published, gen, prevGen, rt, cgen, crt,
               chist, tr, wk, calc, rcv>>
\* What a helper method called on its own leaves alone: everything else.
besideCalc == <<now, threadKeys, control, queue, published, gen, prevGen, rt, cgen, crt,
                chist, tr, wk, snd, thread_cache, rcv>>
\* What a GoogleChatReceiver._fetch_messages call leaves alone, besides the
\* queue.
besideRcv == <<now, threadKeys, control, gen, prevGen, rt, cgen, crt, chist, tr, wk,
               snd, thread_cache, calc>>

\* ------------------------------------------------------------ the stores
NoDoc ==
    [exists |-> FALSE, controller |-> "", last_human_activity |-> NoTime,
     updated_at |-> NoTime]

\* ------------------------------------------------------- component inputs
\* A Message input (input_message / customer_message / message_input); a
\* session_id of None counts as "" (`getattr(...) or ""`).
NoMessage == [present |-> FALSE, session_id |-> <<>>]
MessageInputs ==
    {NoMessage} \cup {[present |-> TRUE, session_id |-> s] : s \in MessageSessionIds}
NoGraph == [present |-> FALSE, session_id |-> <<>>]
GraphInputs ==
    {NoGraph} \cup {[present |-> TRUE, session_id |-> s] : s \in GraphSessionIds}

\* _get_session_id of ThreadKeyGenerator and GoogleChatHumanTakeover:
\* the message's session_id if non-empty, else the graph's, then strip().
get_session_id(message, graph) ==
    LET method1_id == IF message.present THEN message.session_id ELSE <<>>
        method2_id == IF graph.present THEN graph.session_id ELSE <<>>
        session_id == IF method1_id # <<>> THEN method1_id ELSE method2_id
    IN  Strip(session_id)

\* ------------------------------------------------- ThreadKeyGenerator
\* gen.before is the session's stored thread_key when the invocation began;
\* gen.failed names the store calls ("read", "write") that raised.
GenIdle ==
    [pc |-> "idle", session |-> <<>>, key |-> NoKey, before |-> NoKey,
     readOk |-> FALSE, wrote |-> FALSE, failed |-> {}]

NoPrevGen == [session |-> <<>>, key |-> NoKey]

AllIdle ==
    /\ gen.pc = "idle"
    /\ rt.pc = "idle"
    /\ tr.pc = "idle"
    /\ wk.pc = "idle"
    /\ snd.pc = "idle"
    /\ rcv.pc = "idle"

\* _get_or_create_key up to the Firestore read: no session id, an unparsable
\* service-account JSON or a failing client constructor all return a fresh
\* key without touching the store.
GenStart(message, graph, credsOk, clientOk, fresh) ==
    /\ AllIdle
    /\ LET session_id == get_session_id(message, graph)
       IN  gen' = IF session_id = <<>> \/ ~credsOk \/ ~clientOk
                  THEN [GenIdle EXCEPT !.pc = "done", !.session = session_id,
                                       !.key = fresh]
                  ELSE [GenIdle EXCEPT !.pc = "read", !.session = session_id,
                                       !.before = threadKeys[session_id]]
    /\ UNCHANGED <<elsewhere, now, threadKeys, control, queue, published, prevGen, rt>>

\* Mutant: the existing key is ignored and a new one generated.
GenReadOk_Regenerate(fresh) ==
    /\ gen.pc = "read"
    /\ gen' = [gen EXCEPT !.pc = "write", !.key = fresh, !.readOk = TRUE]
    /\ UNCHANGED <<elsewhere, now, threadKeys, control, queue, published, prevGen, rt>>

\* doc_ref.get() succeeded: an existing non-empty thread_key is returned,
\* otherwise a new key is generated.
GenReadOk(fresh) ==
    /\ gen.pc = "read"
    /\ gen' = IF threadKeys[gen.session] # NoKey
              THEN [gen EXCEPT !.pc = "done", !.key = threadKeys[gen.session],
                               !.readOk = TRUE]
              ELSE [gen EXCEPT !.pc = "write", !.key = fresh, !.readOk = TRUE]
    /\ UNCHANGED <<elsewhere, now, threadKeys, control, queue, published, prevGen, rt>>

\* doc_ref.get() raised: the exception is logged and a new key is generated.
GenReadFail(fresh) ==
    /\ gen.pc = "read"
    /\ gen' = [gen EXCEPT !.pc = "write", !.key = fresh, !.failed = {"read"}]
    /\ UNCHANGED <<elsewhere, now, threadKeys, control, queue, published, prevGen, rt>>

\* doc_ref.set({thread_key, session_id, created_at}) succeeded.
GenWriteOk ==
    /\ gen.pc = "write"
    /\ threadKeys' = [threadKeys EXCEPT ![gen.session] = gen.key]
    /\ gen' = [gen EXCEPT !.pc = "done", !.wrote = TRUE]
    /\ UNCHANGED <<elsewhere, now, control, queue, published, prevGen, rt>>

\* doc_ref.set raised: logged, the new key is returned unpersisted.
GenWriteFail ==
    /\ gen.pc = "write"
    /\ gen' = [gen EXCEPT !.pc = "done", !.failed = @ \cup {"write"}]
    /\ UNCHANGED <<elsewhere, now, threadKeys, control, queue, published, prevGen, rt>>

\* _get_or_create_key returns gen.key to get_message_output.
GenReturn ==
    /\ gen.pc = "done"
    /\ prevGen' = IF gen.session = <<>> THEN NoPrevGen
                  ELSE [session |-> gen.session, key |-> gen.key]
    /\ gen' = GenIdle
    /\ UNCHANGED <<elsewhere, now, threadKeys, control, queue, published, rt>>

\* ------------------------------------------------------ Pub/Sub events
BotEmail == <<"b">>
HumanEmail == <<"h">>
Hi == <<"H", "i">>
\* "@AI": a handoff command in capitals.
AtAI == <<"@", "A", "I">>

\* What a published payload decodes to.  shape: "ok" (a JSON object),
\* "badjson" (json.loads raises JSONDecodeError), "badutf8" (decode raises
\* UnicodeDecodeError), "nonobject" (valid JSON that is no object).
Event(shape, type, email, text) ==
    [shape |-> shape, type |-> type, email |-> email, text |-> text]

Events ==
    { Event("ok", "MESSAGE", HumanEmail, Hi),
      Event("ok", "MESSAGE", HumanEmail, AtAI),
      Event("ok", "MESSAGE", BotEmail, Hi),
      Event("ok", "ADDED_TO_SPACE", <<>>, <<>>),
      Event("badjson", "", <<>>, <<>>),
      Event("badutf8", "", <<>>, <<>>) }

\* subscriber.acknowledge(ack_ids=[id]) as the subscription sees it.
Acknowledge(q, id) == SelectSeq(q, LAMBDA m : m.id # id)

\* max_messages of the router's pull request.
max_messages == 10

\* subscriber.pull: up to max_messages of the unacknowledged messages.
Pull(q) == SubSeq(q, 1, IF Len(q) < max_messages THEN Len(q) ELSE max_messages)

\* --------------------------------------------- GoogleChatHumanTakeover
\* Default of the handoff_keywords input: "@ai, /handoff, /ai".
DefaultHandoffKeywords ==
    <<"@", "a", "i", ",", " ", "/", "h", "a", "n", "d", "o", "f", "f", ",", " ",
      "/", "a", "i">>

\* Configured values of human_timeout_minutes (minutes of the wall clock).
HumanTimeouts == {0, 1}
\* Configured values of check_timeout (seconds): "no check" and the default.
CheckTimeouts == {0, 3}
\* Seconds one iteration of the pull loop can take (the pull's timeout is 2).
PullDurations == {1, 2}
\* Configured values of bot_email, and client_email of the service account.
BotEmailInputs == {<<>>, BotEmail}
ClientEmails == {BotEmail}

NoHumanMsg ==
    [present |-> FALSE, text |-> <<>>, sender_email |-> <<>>]

\* The Message returned with a route; None is [present |-> FALSE].
NoOperatorMessage == [present |-> FALSE, text |-> <<>>]

\* The dict _get_control_state returns when no document exists.
DefaultState ==
    [exists |-> FALSE, controller |-> "AI", last_human_activity |-> NoTime,
     updated_at |-> NoTime]

\* rt.wrote lists the controllers this invocation has written with
\* _set_control_state; rt.ops the kinds of store and queue calls it has made;
\* rt.checked_at is the clock value _check_human_timeout compared against.
RtIdle ==
    [pc |-> "idle", session |-> <<>>, thread_key |-> NoKey,
     check_timeout |-> 0, bot_email |-> <<>>,
     state |-> DefaultState, current_controller |-> "",
     human_timeout_minutes |-> 0, checked_at |-> 0, timed_out |-> FALSE, elapsed |-> 0, batch |-> <<>>,
     human_msg |-> NoHumanMsg, route |-> "", message |-> NoOperatorMessage,
     wrote |-> <<>>, ops |-> {}]

\* Mutant: the default for a missing document is HUMAN control.
get_control_state_DefaultHuman(doc) ==
    IF doc.exists THEN doc ELSE [DefaultState EXCEPT !.controller = "HUMAN"]

\* _get_control_state: doc.to_dict() of the stored document, or the AI default.
get_control_state(doc) ==
    IF doc.exists THEN doc ELSE DefaultState

\* Mutant: last_human_activity is never written.
set_control_state_NoActivity(doc, controller, t) ==
    [exists |-> TRUE, controller |-> controller, updated_at |-> t,
     last_human_activity |-> doc.last_human_activity]

\* Mutant: a write of AI clears last_human_activity.
set_control_state_ClearsOnAI(doc, controller, t) ==
    [exists |-> TRUE, controller |-> controller, updated_at |-> t,
     last_human_activity |-> IF controller = "HUMAN" THEN t ELSE NoTime]

\* Mutant: a write of HUMAN stamps last_human_activity with a clock that
\* runs backwards.
set_control_state_BackwardClock(doc, controller, t) ==
    [exists |-> TRUE, controller |-> controller, updated_at |-> t,
     last_human_activity |-> IF controller = "HUMAN" THEN MaxTime - t
                             ELSE doc.last_human_activity]

\* Mutant: every write stamps last_human_activity.
set_control_state_AlwaysActivity(doc, controller, t) ==
    [exists |-> TRUE, controller |-> controller, updated_at |-> t,
     last_human_activity |-> t]

\* _set_control_state: doc_ref.set(data, merge=True) with controller,
\* thread_key, updated_at and, for HUMAN only, last_human_activity.
set_control_state(doc, controller, t) ==
    [exists |-> TRUE, controller |-> controller, updated_at |-> t,
     last_human_activity |-> IF controller = "HUMAN" THEN t ELSE doc.last_human_activity]

\* Mutant: the elapsed time is computed the wrong way round.
check_human_timeout_Reversed(state, timeout_minutes, t) ==
    IF state.last_human_activity = NoTime THEN FALSE
    ELSE (state.last_human_activity - t) > timeout_minutes

\* Mutant: an elapsed time equal to the limit already counts as a timeout.
check_human_timeout_AtLimit(state, timeout_minutes, t) ==
    IF state.last_human_activity = NoTime THEN FALSE
    ELSE (t - state.last_human_activity) >= timeout_minutes

\* _check_human_timeout at wall-clock time t: False without a
\* last_human_activity, False when fromisoformat raises on it.
check_human_timeout(state, timeout_minutes, t) ==
    IF state.last_human_activity = NoTime THEN FALSE
    ELSE IF state.last_human_activity = Malformed THEN FALSE
    ELSE (t - state.last_human_activity) > timeout_minutes

\* Mutant: the timeout test does not look at the controller.
human_timed_out_AnyController(state, timeout_minutes, t) ==
    check_human_timeout(state, timeout_minutes, t)

\* `current_controller == "HUMAN" and self._check_human_timeout(state)`
human_timed_out(state, timeout_minutes, t) ==
    /\ state.controller = "HUMAN"
    /\ check_human_timeout(state, timeout_minutes, t)

\* Mutant: an empty keyword matches, as the empty string is in every text.
is_handoff_message_EmptyMatches(text, handoff_keywords) ==
    LET parts == Split(handoff_keywords, ",")
        keywords == [i \in 1..Len(parts) |-> Lower(Strip(parts[i]))]
        text_lower == Strip(Lower(text))
    IN  \E i \in 1..Len(keywords) : Contains(keywords[i], text_lower)

\* _is_handoff_message
is_handoff_message(text, handoff_keywords) ==
    LET parts == Split(handoff_keywords, ",")
        keywords == [i \in 1..Len(parts) |-> Lower(Strip(parts[i]))]
        text_lower == Strip(Lower(text))
    IN  \E i \in 1..Len(keywords) :
            keywords[i] # <<>> /\ Contains(keywords[i], text_lower)

\* `bot_email and bot_email in sender_email`
is_bot_sender(bot_email, sender_email) ==
    bot_email # <<>> /\ Contains(bot_email, sender_email)

\* get_operator_message: the operator's Message, or the empty "No Message".
get_operator_message(route_result) ==
    IF route_result.message.present THEN route_result.message.text ELSE <<>>

\* The Message get_operator_message hands downstream, with every field it
\* sets: the operator's Message (sender and sender_name are the event's
\* displayName, "Human" when the event has none), or the "No Message" one.
operator_message_output(route_result) ==
    IF route_result.message.present
    THEN [text |-> route_result.message.text, sender |-> "Human",
          sender_name |-> "Human"]
    ELSE [text |-> <<>>, sender |-> "System", sender_name |-> "No Message"]

\* _route up to the thread-key lookup: the service-account JSON is parsed
\* (json.JSONDecodeError is re-raised as ValueError), bot_email is resolved,
\* and _get_thread_key returns "" at once when no session id is found.
RStart(message, graph, credsOk, check_secs, bot_email, client_email) ==
    /\ AllIdle
    /\ LET session_id == get_session_id(message, graph)
           begun == [RtIdle EXCEPT !.session = session_id,
                         !.check_timeout = check_secs,
                         !.bot_email = IF bot_email # <<>> THEN bot_email
                                       ELSE client_email]
       IN  rt' = IF ~credsOk THEN [RtIdle EXCEPT !.pc = "raised"]
                 ELSE IF session_id = <<>>
                 THEN [begun EXCEPT !.pc = "returned", !.route = "AI"]
                 ELSE [begun EXCEPT !.pc = "lookup"]
    /\ prevGen' = NoPrevGen
    /\ UNCHANGED <<elsewhere, now, threadKeys, control, queue, published, gen>>

\* Mutant: a lookup miss creates the session's thread-key record.
RLookupOk_CreatesOnMiss ==
    /\ rt.pc = "lookup"
    /\ LET thread_key == threadKeys[rt.session]
       IN  /\ rt' = IF thread_key # NoKey
                    THEN [rt EXCEPT !.pc = "read", !.thread_key = thread_key,
                                    !.ops = @ \cup {"tk_get"}]
                    ELSE [rt EXCEPT !.pc = "read", !.thread_key = "K1",
                                    !.ops = @ \cup {"tk_get"}]
           /\ threadKeys' = IF thread_key # NoKey THEN threadKeys
                            ELSE [threadKeys EXCEPT ![rt.session] = "K1"]
    /\ UNCHANGED <<elsewhere, now, control, queue, published, gen, prevGen>>

\* _get_thread_key: doc_ref.get() succeeded.  A missing document or an empty
\* thread_key routes to AI.
RLookupOk ==
    /\ rt.pc = "lookup"
    /\ LET thread_key == threadKeys[rt.session]
       IN  rt' = IF thread_key # NoKey
                 THEN [rt EXCEPT !.pc = "read", !.thread_key = thread_key,
                                 !.ops = @ \cup {"tk_get"}]
                 ELSE [rt EXCEPT !.pc = "returned", !.route = "AI",
                                 !.ops = @ \cup {"tk_get"}]
    /\ UNCHANGED <<elsewhere, now, threadKeys, control, queue, published, gen, prevGen>>

\* Mutant: the failing lookup is not caught.
RLookupFail_Raises ==
    /\ rt.pc = "lookup"
    /\ rt' = [rt EXCEPT !.pc = "raised", !.ops = @ \cup {"tk_get"}]
    /\ UNCHANGED <<elsewhere, now, threadKeys, control, queue, published, gen, prevGen>>

\* _get_thread_key: doc_ref.get() raised; logged, "" returned, route AI.
RLookupFail ==
    /\ rt.pc = "lookup"
    /\ rt' = [rt EXCEPT !.pc = "returned", !.route = "AI", !.ops = @ \cup {"tk_get"}]
    /\ UNCHANGED <<elsewhere, now, threadKeys, control, queue, published, gen, prevGen>>

\* _get_control_state succeeded; current_controller and the timeout test
\* against self.human_timeout_minutes.
RReadState(human_timeout_minutes) ==
    /\ rt.pc = "read"
    /\ LET state == get_control_state(control[rt.thread_key])
           timed_out == human_timed_out(state, human_timeout_minutes, now)
       IN  rt' = [rt EXCEPT !.pc = IF timed_out THEN "expire" ELSE "poll",
                            !.state = state,
                            !.current_controller = state.controller,
                            !.human_timeout_minutes = human_timeout_minutes,
                            !.checked_at = now,
                            !.timed_out = timed_out,
                            !.ops = @ \cup {"ctl_get"}]
    /\ UNCHANGED <<elsewhere, now, threadKeys, control, queue, published, gen, prevGen>>

\* _get_control_state: doc_ref.get() raised; nothing in _route catches it.
RReadStateFail ==
    /\ rt.pc = "read"
    /\ rt' = [rt EXCEPT !.pc = "raised", !.ops = @ \cup {"ctl_get"}]
    /\ UNCHANGED <<elsewhere, now, threadKeys, control, queue, published, gen, prevGen>>

\* Human timed out: _set_control_state(thread_key, "AI"), current_controller = "AI".
RTimeoutWrite ==
    /\ rt.pc = "expire"
    /\ control' = [control EXCEPT ![rt.thread_key] = set_control_state(@, "AI", now)]
    /\ rt' = [rt EXCEPT !.pc = "poll", !.current_controller = "AI",
                        !.wrote = Append(@, "AI"),
                        !.ops = @ \cup {"ctl_set"}]
    /\ UNCHANGED <<elsewhere, now, threadKeys, queue, published, gen, prevGen>>

\* A failing doc_ref.set in _set_control_state propagates out of _route.
RWriteFail ==
    /\ \/ rt.pc = "expire"
       \/ rt.pc = "decide" /\ rt.human_msg.present
    /\ rt' = [rt EXCEPT !.pc = "raised", !.ops = @ \cup {"ctl_set"}]
    /\ UNCHANGED <<elsewhere, now, threadKeys, control, queue, published, gen, prevGen>>

\* ---- _check_for_human_message: while time.time() - start_time < check_timeout
\* The loop condition fails: "No human messages found", return None.
RPollExpire ==
    /\ rt.pc = "poll"
    /\ ~(rt.elapsed < rt.check_timeout)
    /\ rt' = [rt EXCEPT !.pc = "decide", !.human_msg = NoHumanMsg]
    /\ UNCHANGED <<elsewhere, now, threadKeys, control, queue, published, gen, prevGen>>

\* subscriber.pull returned; the for loop over received_messages begins.
RPullOk(secs) ==
    /\ rt.pc = "poll"
    /\ rt.elapsed < rt.check_timeout
    /\ rt' = [rt EXCEPT !.pc = "batch", !.batch = Pull(queue),
                        !.elapsed = @ + secs, !.ops = @ \cup {"pull"}]
    /\ UNCHANGED <<elsewhere, now, threadKeys, control, queue, published, gen, prevGen>>

\* subscriber.pull raised (DeadlineExceeded or other): `continue`.
RPullFail(secs) ==
    /\ rt.pc = "poll"
    /\ rt.elapsed < rt.check_timeout
    /\ rt' = [rt EXCEPT !.elapsed = @ + secs, !.ops = @ \cup {"pull"}]
    /\ UNCHANGED <<elsewhere, now, threadKeys, control, queue, published, gen, prevGen>>

\* The for loop is exhausted: back to the while condition.
RBatchEnd ==
    /\ rt.pc = "batch"
    /\ rt.batch = <<>>
    /\ rt' = [rt EXCEPT !.pc = "poll"]
    /\ UNCHANGED <<elsewhere, now, threadKeys, control, queue, published, gen, prevGen>>

\* json.loads raised JSONDecodeError: the inner except logs and continues
\* with the next received message; no acknowledge call is made.
RParseError ==
    /\ rt.pc = "batch"
    /\ rt.batch # <<>>
    /\ Head(rt.batch).shape = "badjson"
    /\ rt' = [rt EXCEPT !.batch = Tail(@)]
    /\ UNCHANGED <<elsewhere, now, threadKeys, control, queue, published, gen, prevGen>>

\* An exception the inner except does not name (UnicodeDecodeError from
\* decode, AttributeError from data.get on JSON that is not an object)
\* reaches the outer `except Exception`: the rest of the batch is abandoned
\* and the while loop continues.
RDecodeEscape ==
    /\ rt.pc = "batch"
    /\ rt.batch # <<>>
    /\ Head(rt.batch).shape \in {"badutf8", "nonobject"}
    /\ rt' = [rt EXCEPT !.pc = "poll", !.batch = <<>>]
    /\ UNCHANGED <<elsewhere, now, threadKeys, control, queue, published, gen, prevGen>>

\* The received message is filtered out by type or by sender.
Filtered(m, bot_email) ==
    \/ m.type # "MESSAGE"
    \/ is_bot_sender(bot_email, m.email)

\* A non-MESSAGE event or a bot message: acknowledge, continue.
RAckFiltered ==
    /\ rt.pc = "batch"
    /\ rt.batch # <<>>
    /\ Head(rt.batch).shape = "ok"
    /\ Filtered(Head(rt.batch), rt.bot_email)
    /\ queue' = Acknowledge(queue, Head(rt.batch).id)
    /\ rt' = [rt EXCEPT !.batch = Tail(@), !.ops = @ \cup {"ack"}]
    /\ UNCHANGED <<elsewhere, now, threadKeys, control, published, gen, prevGen>>

\* Mutant: the whole pulled batch is acknowledged with the accepted message.
RAccept_AcksBatch ==
    /\ rt.pc = "batch"
    /\ rt.batch # <<>>
    /\ Head(rt.batch).shape = "ok"
    /\ ~Filtered(Head(rt.batch), rt.bot_email)
    /\ queue' = SelectSeq(queue, LAMBDA m :
                    \A i \in 1..Len(rt.batch) : rt.batch[i].id # m.id)
    /\ rt' = [rt EXCEPT !.pc = "decide", !.batch = <<>>,
                        !.human_msg = [present |-> TRUE, text |-> Head(rt.batch).text,
                                       sender_email |-> Head(rt.batch).email],
                        !.ops = @ \cup {"ack"}]
    /\ UNCHANGED <<elsewhere, now, threadKeys, control, published, gen, prevGen>>

\* A human message: acknowledge, then return {text, sender_name, sender_email}.
RAccept ==
    /\ rt.pc = "batch"
    /\ rt.batch # <<>>
    /\ Head(rt.batch).shape = "ok"
    /\ ~Filtered(Head(rt.batch), rt.bot_email)
    /\ queue' = Acknowledge(queue, Head(rt.batch).id)
    /\ rt' = [rt EXCEPT !.pc = "decide", !.batch = <<>>,
                        !.human_msg = [present |-> TRUE, text |-> Head(rt.batch).text,
                                       sender_email |-> Head(rt.batch).email],
                        !.ops = @ \cup {"ack"}]
    /\ UNCHANGED <<elsewhere, now, threadKeys, control, published, gen, prevGen>>

\* subscriber.acknowledge raised: caught by the outer `except Exception`,
\* the message stays unacknowledged and the while loop continues.
RAckFail ==
    /\ rt.pc = "batch"
    /\ rt.batch # <<>>
    /\ Head(rt.batch).shape = "ok"
    /\ rt' = [rt EXCEPT !.pc = "poll", !.batch = <<>>, !.ops = @ \cup {"ack"}]
    /\ UNCHANGED <<elsewhere, now, threadKeys, control, queue, published, gen, prevGen>>

\* ---- _route after the queue check
\* Mutant: the handoff command is forwarded like any operator message.
route_result_ForwardHandoff(human_msg, current_controller, handoff_keywords) ==
    IF human_msg.present
    THEN [route |-> IF is_handoff_message(human_msg.text, handoff_keywords)
                    THEN "AI" ELSE "HUMAN",
          message |-> [present |-> TRUE, text |-> human_msg.text]]
    ELSE IF current_controller = "HUMAN"
         THEN [route |-> "HUMAN", message |-> NoOperatorMessage]
         ELSE [route |-> "AI", message |-> NoOperatorMessage]

\* Mutant: with no human message the route is HUMAN whoever holds control.
route_result_AlwaysHuman(human_msg, current_controller, handoff_keywords) ==
    IF human_msg.present
    THEN IF is_handoff_message(human_msg.text, handoff_keywords)
         THEN [route |-> "AI", message |-> NoOperatorMessage]
         ELSE [route |-> "HUMAN",
               message |-> [present |-> TRUE, text |-> human_msg.text]]
    ELSE [route |-> "HUMAN", message |-> NoOperatorMessage]

\* The (route, message) pair _route returns once the queue check is done and,
\* for a human message, the control state is written.
route_result(human_msg, current_controller, handoff_keywords) ==
    IF human_msg.present
    THEN IF is_handoff_message(human_msg.text, handoff_keywords)
         THEN [route |-> "AI", message |-> NoOperatorMessage]
         ELSE [route |-> "HUMAN",
               message |-> [present |-> TRUE, text |-> human_msg.text]]
    ELSE IF current_controller = "HUMAN"
         THEN [route |-> "HUMAN", message |-> NoOperatorMessage]
         ELSE [route |-> "AI", message |-> NoOperatorMessage]

\* Mutant: a handoff command is written as HUMAN like any other message.
written_controller_AlwaysHuman(human_msg, handoff_keywords) ==
    "HUMAN"

\* The controller _route writes for a human message: AI for a handoff
\* command, HUMAN otherwise.
written_controller(human_msg, handoff_keywords) ==
    IF is_handoff_message(human_msg.text, handoff_keywords) THEN "AI" ELSE "HUMAN"

\* A human message was found: _set_control_state succeeds and _route returns.
RHumanMessage ==
    /\ rt.pc = "decide"
    /\ rt.human_msg.present
    /\ LET controller == written_controller(rt.human_msg, DefaultHandoffKeywords)
           result == route_result(rt.human_msg, rt.current_controller,
                                  DefaultHandoffKeywords)
       IN  /\ control' = [control EXCEPT
                             ![rt.thread_key] = set_control_state(@, controller, now)]
           /\ rt' = [rt EXCEPT !.pc = "returned", !.route = result.route,
                               !.message = result.message,
                               !.wrote = Append(@, controller),
                               !.ops = @ \cup {"ctl_set"}]
    /\ UNCHANGED <<elsewhere, now, threadKeys, queue, published, gen, prevGen>>

\* No human message: the route follows current_controller, nothing is written.
RNoHumanMessage ==
    /\ rt.pc = "decide"
    /\ ~rt.human_msg.present
    /\ LET result == route_result(rt.human_msg, rt.current_controller,
                                  DefaultHandoffKeywords)
       IN  rt' = [rt EXCEPT !.pc = "returned", !.route = result.route,
                            !.message = result.message]
    /\ UNCHANGED <<elsewhere, now, threadKeys, control, queue, published, gen, prevGen>>

\* The host has read the outputs (or the exception): the invocation is over.
RFinish ==
    /\ rt.pc \in {"returned", "raised"}
    /\ rt' = RtIdle
    /\ UNCHANGED <<elsewhere, now, threadKeys, control, queue, published, gen, prevGen>>

\* ------------------------- ThreadKeyGenerator, overlapping invocations
\* The flow host may run two flows at once: each process p runs
\* _get_or_create_key on its own; the store calls are the atomic steps.
Procs == {1, 2}

\* The locals of GenIdle, and lastWriter: this process made the latest
\* successful doc_ref.set on thread_keys.
CGenIdle ==
    [pc |-> "idle", session |-> <<>>, key |-> NoKey, before |-> NoKey,
     readOk |-> FALSE, wrote |-> FALSE, failed |-> {}, lastWriter |-> FALSE]

\* GenStart, for process p.
CGenStart(p, message, graph, credsOk, clientOk, fresh) ==
    /\ AllIdle
    /\ cgen[p].pc = "idle"
    /\ LET session_id == get_session_id(message, graph)
       IN  cgen' = [cgen EXCEPT ![p] =
                      IF session_id = <<>> \/ ~credsOk \/ ~clientOk
                      THEN [CGenIdle EXCEPT !.pc = "done", !.session = session_id,
                                            !.key = fresh]
                      ELSE [CGenIdle EXCEPT !.pc = "read", !.session = session_id,
                                            !.before = threadKeys[session_id]]]
    /\ UNCHANGED <<now, threadKeys, control, queue, published, besideCGen>>

\* GenReadOk, for process p.
CGenReadOk(p, fresh) ==
    /\ cgen[p].pc = "read"
    /\ cgen' = [cgen EXCEPT ![p] =
                  IF threadKeys[cgen[p].session] # NoKey
                  THEN [cgen[p] EXCEPT !.pc = "done",
                                       !.key = threadKeys[cgen[p].session],
                                       !.readOk = TRUE]
                  ELSE [cgen[p] EXCEPT !.pc = "write", !.key = fresh,
                                       !.readOk = TRUE]]
    /\ UNCHANGED <<now, threadKeys, control, queue, published, besideCGen>>

\* GenReadFail, for process p.
CGenReadFail(p, fresh) ==
    /\ cgen[p].pc = "read"
    /\ cgen' = [cgen EXCEPT ![p] =
                  [cgen[p] EXCEPT !.pc = "write", !.key = fresh, !.failed = {"read"}]]
    /\ UNCHANGED <<now, threadKeys, control, queue, published, besideCGen>>

\* Mutant: the write is a create that leaves an existing record alone.
CGenWriteOk_CreateOnly(p) ==
    /\ cgen[p].pc = "write"
    /\ threadKeys' = [threadKeys EXCEPT ![cgen[p].session] =
                         IF @ = NoKey THEN cgen[p].key ELSE @]
    /\ cgen' = [q \in Procs |->
                  IF q = p
                  THEN [cgen[q] EXCEPT !.pc = "done", !.wrote = TRUE, !.lastWriter = TRUE]
                  ELSE [cgen[q] EXCEPT !.lastWriter = FALSE]]
    /\ UNCHANGED <<now, control, queue, published, besideCGen>>

\* GenWriteOk, for process p: doc_ref.set replaces whatever is stored.
CGenWriteOk(p) ==
    /\ cgen[p].pc = "write"
    /\ threadKeys' = [threadKeys EXCEPT ![cgen[p].session] = cgen[p].key]
    /\ cgen' = [q \in Procs |->
                  IF q = p
                  THEN [cgen[q] EXCEPT !.pc = "done", !.wrote = TRUE, !.lastWriter = TRUE]
                  ELSE [cgen[q] EXCEPT !.lastWriter = FALSE]]
    /\ UNCHANGED <<now, control, queue, published, besideCGen>>

\* GenWriteFail, for process p.
CGenWriteFail(p) ==
    /\ cgen[p].pc = "write"
    /\ cgen' = [cgen EXCEPT ![p] =
                  [cgen[p] EXCEPT !.pc = "done", !.failed = @ \cup {"write"}]]
    /\ UNCHANGED <<now, threadKeys, control, queue, published, besideCGen>>

\* Both invocations have returned their keys; the host starts the next turn.
CGenFinish ==
    /\ \A p \in Procs : cgen[p].pc = "done"
    /\ cgen' = [p \in Procs |-> CGenIdle]
    /\ UNCHANGED <<now, threadKeys, control, queue, published, besideCGen>>

\* ------------------- GoogleChatHumanTakeover, overlapping invocations
\* Flows running _route for the session S1, whose thread key is stored; the
\* store calls, the pull and the acknowledge calls are the atomic steps, and
\* the steps between two of them are taken with the call they lead to.
CRtIdle ==
    [pc |-> "idle", thread_key |-> NoKey, check_timeout |-> 0,
     current_controller |-> "", elapsed |-> 0, batch |-> <<>>,
     human_msg |-> NoHumanMsg, route |-> ""]

\* chist.mode: whether the host runs one turn at a time ("serial") or may
\* start a turn while another is in progress ("overlapping");
\* chist.consumed: the human message acknowledged and accepted last, by any
\* invocation; chist.writeRaised: a control-state write has raised.
HostModes == {"serial", "overlapping"}
NoHistory == [mode |-> "serial", consumed |-> NoHumanMsg, writeRaised |-> FALSE]

Running(p) == crt[p].pc \notin {"idle", "returned", "raised"}

\* RStart, RLookupOk for a session with a stored thread key, and RReadState.
\* The host has collected the outputs of the invocations that ended.
CRStart(p, check_secs, human_timeout_minutes) ==
    /\ AllIdle
    /\ crt[p].pc = "idle"
    /\ \A q \in Procs : crt[q].pc \notin {"returned", "raised"}
    /\ chist.mode = "serial" => \A q \in Procs : ~Running(q)
    /\ threadKeys[S1] # NoKey
    /\ LET state == get_control_state(control[threadKeys[S1]])
           timed_out == human_timed_out(state, human_timeout_minutes, now)
       IN  crt' = [crt EXCEPT ![p] =
                     [CRtIdle EXCEPT !.pc = IF timed_out THEN "expire" ELSE "poll",
                                     !.thread_key = threadKeys[S1],
                                     !.check_timeout = check_secs,
                                     !.current_controller = state.controller]]
    /\ UNCHANGED <<now, threadKeys, control, queue, published, chist, besideCRt>>

\* RTimeoutWrite, for process p.
CRTimeoutWrite(p) ==
    /\ crt[p].pc = "expire"
    /\ control' = [control EXCEPT
                      ![crt[p].thread_key] = set_control_state(@, "AI", now)]
    /\ crt' = [crt EXCEPT ![p] =
                 [crt[p] EXCEPT !.pc = "poll", !.current_controller = "AI"]]
    /\ UNCHANGED <<now, threadKeys, queue, published, chist, besideCRt>>

\* RWriteFail, for process p.
CRWriteFail(p) ==
    /\ \/ crt[p].pc = "expire"
       \/ crt[p].pc = "decide"
    /\ crt' = [crt EXCEPT ![p] = [crt[p] EXCEPT !.pc = "raised"]]
    /\ chist' = [chist EXCEPT !.writeRaised = TRUE]
    /\ UNCHANGED <<now, threadKeys, control, queue, published, besideCRt>>

\* RPollExpire and RNoHumanMessage, for process p.
CRPollExpire(p) ==
    /\ crt[p].pc = "poll"
    /\ ~(crt[p].elapsed < crt[p].check_timeout)
    /\ crt' = [crt EXCEPT ![p] =
                 [crt[p] EXCEPT !.pc = "returned",
                     !.route = route_result(NoHumanMsg, crt[p].current_controller,
                                            DefaultHandoffKeywords).route]]
    /\ UNCHANGED <<now, threadKeys, control, queue, published, chist, besideCRt>>

\* RPullOk, for process p; an empty batch leads back to the while condition.
CRPullOk(p, secs) ==
    /\ crt[p].pc = "poll"
    /\ crt[p].elapsed < crt[p].check_timeout
    /\ crt' = [crt EXCEPT ![p] =
                 [crt[p] EXCEPT !.pc = IF Pull(queue) = <<>> THEN "poll" ELSE "batch",
                                !.batch = Pull(queue),
                                !.elapsed = @ + secs]]
    /\ UNCHANGED <<now, threadKeys, control, queue, published, chist, besideCRt>>

\* RAckFiltered and, after the last message of the batch, RBatchEnd.
CRAckFiltered(p) ==
    /\ crt[p].pc = "batch"
    /\ crt[p].batch # <<>>
    /\ Filtered(Head(crt[p].batch), BotEmail)
    /\ queue' = Acknowledge(queue, Head(crt[p].batch).id)
    /\ crt' = [crt EXCEPT ![p] =
                 [crt[p] EXCEPT !.pc = IF Tail(crt[p].batch) = <<>> THEN "poll"
                                       ELSE "batch",
                                !.batch = Tail(@)]]
    /\ UNCHANGED <<now, threadKeys, control, published, chist, besideCRt>>

\* RAccept, for process p.
CRAccept(p) ==
    /\ crt[p].pc = "batch"
    /\ crt[p].batch # <<>>
    /\ ~Filtered(Head(crt[p].batch), BotEmail)
    /\ queue' = Acknowledge(queue, Head(crt[p].batch).id)
    /\ LET human_msg == [present |-> TRUE, text |-> Head(crt[p].batch).text,
                         sender_email |-> Head(crt[p].batch).email]
       IN  /\ crt' = [crt EXCEPT ![p] =
                        [crt[p] EXCEPT !.pc = "decide", !.batch = <<>>,
                                       !.human_msg = human_msg]]
           /\ chist' = [chist EXCEPT !.consumed = human_msg]
    /\ UNCHANGED <<now, threadKeys, control, published, besideCRt>>

\* RHumanMessage, for process p.
CRHumanMessage(p) ==
    /\ crt[p].pc = "decide"
    /\ LET controller == written_controller(crt[p].human_msg, DefaultHandoffKeywords)
           result == route_result(crt[p].human_msg, crt[p].current_controller,
                                  DefaultHandoffKeywords)
       IN  /\ control' = [control EXCEPT
                 ![crt[p].thread_key] = set_control_state(@, controller, now)]
           /\ crt' = [crt EXCEPT ![p] =
                        [crt[p] EXCEPT !.pc = "returned", !.route = result.route]]
    /\ UNCHANGED <<now, threadKeys, queue, published, chist, besideCRt>>

\* RFinish, for process p.
CRFinish(p) ==
    /\ crt[p].pc \in {"returned", "raised"}
    /\ crt' = [crt EXCEPT ![p] = CRtIdle]
    /\ UNCHANGED <<now, threadKeys, control, queue, published, chist, besideCRt>>

\* Tick, between turns or when an invocation is about to read the clock
\* for a control-state write: every other step commutes with the passing of
\* time.  With overlapping turns the clock is held: there the order of the
\* store calls is what matters, and the turns fit within one minute.
CTick ==
    /\ now < MaxTime
    /\ chist.mode = "serial"
    /\ \/ \A p \in Procs : crt[p].pc = "idle"
       \/ \E p \in Procs : crt[p].pc \in {"expire", "decide"}
    /\ now' = now + 1
    /\ UNCHANGED <<threadKeys, control, queue, published, crt, chist, besideCRt>>

\* Operators' and the bot's messages in the space.
OperatorEvents ==
    { Event("ok", "MESSAGE", HumanEmail, Hi),
      Event("ok", "MESSAGE", HumanEmail, AtAI),
      Event("ok", "MESSAGE", BotEmail, Hi) }

\* Publish, while a concurrent invocation is about to pull.
CPublish(e) ==
    /\ published < MaxPublished
    /\ \E p \in Procs : crt[p].pc = "poll"
    /\ published' = published + 1
    /\ queue' = Append(queue, [id |-> published + 1, shape |-> e.shape,
                               type |-> e.type, email |-> e.email, text |-> e.text])
    /\ UNCHANGED <<now, threadKeys, control, crt, chist, besideCRt>>

\* ------------------------------------------------ GooglePubSubTrigger
T1 == <<"t", "1">>
T2 == <<"t", "2">>

\* A Chat event with the thread it was posted in.
ChatEvent(shape, type, email, text, thread) ==
    [shape |-> shape, type |-> type, email |-> email, text |-> text,
     thread |-> thread]

ChatEvents ==
    { ChatEvent("ok", "MESSAGE", HumanEmail, Hi, T1),
      ChatEvent("ok", "MESSAGE", HumanEmail, Hi, T2),
      ChatEvent("ok", "MESSAGE", BotEmail, Hi, T1),
      ChatEvent("ok", "ADDED_TO_SPACE", <<>>, <<>>, <<>>),
      ChatEvent("badjson", "", <<>>, <<>>, <<>>),
      ChatEvent("nonobject", "", <<>>, <<>>, <<>>) }

\* The Chat thread a thread key's conversation lives in: the thread the
\* sender's first message with `"thread": {"threadKey": thread_key}` opened.
thread_of_key(thread_key) ==
    CASE thread_key = "K1" -> T1
      [] thread_key = "K2" -> T2
      [] OTHER -> <<>>

\* poll_interval: the pull's timeout and the back-off after a pull error.
poll_interval == 3
\* time.sleep(1) after a batch with no valid message.
batch_sleep == 1

\* Configured values of wait_timeout (0 = wait forever).
WaitTimeouts == {0, 3}
\* Seconds a pull that returns can take.
TriggerPullDurations == {1, 3}
\* Configured values of the trigger's bot_email, thread_filter and of the
\* thread_name of the connected sender_result ("" when not connected).
TriggerBotEmails == {<<>>, <<" ">> \o BotEmail}
ManualThreadFilters == {<<>>, <<" ">> \o T2 \o <<" ">>}
SenderResultThreads == {<<>>, T1}

\* Elapsed seconds are counted up to MaxElapsed: the loop only asks whether
\* they have reached wait_timeout.
MaxElapsed == 3
Later(elapsed, secs) ==
    IF elapsed + secs < MaxElapsed THEN elapsed + secs ELSE MaxElapsed

\* What _wait_for_message_sync returns: None, the parsed event, or in raw
\* mode {"text": raw_data, "raw": message_data}.
NoResult ==
    [present |-> FALSE, id |-> 0, raw |-> FALSE, type |-> "", email |-> <<>>,
     text |-> <<>>, thread |-> <<>>]

TrIdle ==
    [pc |-> "idle", wait_timeout |-> 0, bot_email |-> <<>>,
     sender_thread |-> <<>>, manual_filter |-> <<>>,
     parse_google_chat |-> TRUE, acknowledge_message |-> TRUE,
     elapsed |-> 0, batch |-> <<>>, result |-> NoResult]

\* _get_thread_filter
get_thread_filter(sender_thread, manual) ==
    IF sender_thread # <<>> THEN sender_thread
    ELSE IF manual # <<>> /\ Strip(manual) # <<>> THEN Strip(manual)
    ELSE <<>>

\* Mutant: the thread filter is not applied.
should_accept_message_AnyThread(bot_email, thread_filter, parsed) ==
    ~(bot_email # <<>> /\ Strip(bot_email) # <<>>
        /\ Contains(Strip(bot_email), parsed.email))

\* _should_accept_message
should_accept_message(bot_email, thread_filter, parsed) ==
    /\ ~(bot_email # <<>> /\ Strip(bot_email) # <<>>
           /\ Contains(Strip(bot_email), parsed.email))
    /\ ~(thread_filter # <<>> /\ parsed.thread # thread_filter)

\* The received message the for loop is looking at.
TrHead == Head(tr.batch)
TrThreadFilter == get_thread_filter(tr.sender_thread, tr.manual_filter)

\* _wait_for_message_sync up to the loop: an empty or unparsable
\* service-account JSON raises ValueError, a failing client constructor
\* raises too, both before any pull.
TStart(credsOk, clientOk, wait_timeout, bot_email, sender_thread, manual, parse_google_chat, acknowledge_message) ==
    /\ AllIdle
    /\ tr' = IF ~credsOk \/ ~clientOk THEN [TrIdle EXCEPT !.pc = "raised"]
             ELSE [TrIdle EXCEPT !.pc = "poll",
                                 !.wait_timeout = wait_timeout,
                                 !.bot_email = bot_email,
                                 !.sender_thread = sender_thread,
                                 !.manual_filter = manual,
                                 !.parse_google_chat = parse_google_chat,
                                 !.acknowledge_message = acknowledge_message]
    /\ UNCHANGED <<queue, published, besideTr>>

\* Mutant: the timeout test without `wait_timeout > 0`.
TTimeout_ZeroIsABudget ==
    /\ tr.pc = "poll"
    /\ tr.elapsed >= tr.wait_timeout
    /\ tr' = [tr EXCEPT !.pc = "returned", !.result = NoResult]
    /\ UNCHANGED <<queue, published, besideTr>>

\* `if wait_timeout > 0 and elapsed >= wait_timeout: return None`
TTimeout ==
    /\ tr.pc = "poll"
    /\ tr.wait_timeout > 0 /\ tr.elapsed >= tr.wait_timeout
    /\ tr' = [tr EXCEPT !.pc = "returned", !.result = NoResult]
    /\ UNCHANGED <<queue, published, besideTr>>

TrPulls == tr.pc = "poll" /\ ~(tr.wait_timeout > 0 /\ tr.elapsed >= tr.wait_timeout)

\* subscriber.pull returned.
TPullOk(secs) ==
    /\ TrPulls
    /\ tr' = [tr EXCEPT !.pc = "batch", !.batch = Pull(queue),
                        !.elapsed = Later(@, secs)]
    /\ UNCHANGED <<queue, published, besideTr>>

\* subscriber.pull raised DeadlineExceeded after its timeout: `continue`.
TPullDeadline ==
    /\ TrPulls
    /\ tr' = [tr EXCEPT !.elapsed = Later(@, poll_interval)]
    /\ UNCHANGED <<queue, published, besideTr>>

\* subscriber.pull raised another error: logged, sleep(poll_interval),
\* `continue`.
TPullError(secs) ==
    /\ TrPulls
    /\ tr' = [tr EXCEPT !.elapsed = Later(Later(@, secs), poll_interval)]
    /\ UNCHANGED <<queue, published, besideTr>>

\* The for loop is exhausted: time.sleep(1), back to `while True`.
TBatchEnd ==
    /\ tr.pc = "batch"
    /\ tr.batch = <<>>
    /\ tr' = [tr EXCEPT !.pc = "poll", !.elapsed = Later(@, batch_sleep)]
    /\ UNCHANGED <<queue, published, besideTr>>

\* The acknowledge call each branch makes `if self.acknowledge_message`.
TrAcknowledged ==
    IF tr.acknowledge_message THEN Acknowledge(queue, TrHead.id) ELSE queue

\* decode or json.loads raised: the message is acknowledged and skipped.
TDecodeError ==
    /\ tr.pc = "batch"
    /\ tr.batch # <<>>
    /\ TrHead.shape \in {"badjson", "badutf8"}
    /\ queue' = TrAcknowledged
    /\ tr' = [tr EXCEPT !.batch = Tail(@)]
    /\ UNCHANGED <<published, besideTr>>

\* message_data.get on JSON that is no object raises AttributeError, which
\* nothing in _wait_for_message_sync catches.
TNotObject ==
    /\ tr.pc = "batch"
    /\ tr.batch # <<>>
    /\ tr.parse_google_chat
    /\ TrHead.shape = "nonobject"
    /\ tr' = [tr EXCEPT !.pc = "raised", !.batch = <<>>]
    /\ UNCHANGED <<queue, published, besideTr>>

\* The event passes: Google Chat parsing is off, or it is a MESSAGE that
\* _should_accept_message accepts.
TrAccepts(m) ==
    \/ ~tr.parse_google_chat /\ m.shape \in {"ok", "nonobject"}
    \/ /\ tr.parse_google_chat
       /\ m.shape = "ok"
       /\ m.type = "MESSAGE"
       /\ should_accept_message(tr.bot_email, TrThreadFilter, m)

\* Mutant: a skipped event is left on the subscription.
TSkip_NoAck ==
    /\ tr.pc = "batch"
    /\ tr.batch # <<>>
    /\ tr.parse_google_chat
    /\ TrHead.shape = "ok"
    /\ ~TrAccepts(TrHead)
    /\ tr' = [tr EXCEPT !.batch = Tail(@)]
    /\ UNCHANGED <<queue, published, besideTr>>

\* Not a MESSAGE event, or filtered out: acknowledged and skipped.
TSkip ==
    /\ tr.pc = "batch"
    /\ tr.batch # <<>>
    /\ tr.parse_google_chat
    /\ TrHead.shape = "ok"
    /\ ~TrAccepts(TrHead)
    /\ queue' = TrAcknowledged
    /\ tr' = [tr EXCEPT !.batch = Tail(@)]
    /\ UNCHANGED <<published, besideTr>>

\* A valid message (or, with parsing off, any decoded payload): acknowledged
\* and returned.
TAccept ==
    /\ tr.pc = "batch"
    /\ tr.batch # <<>>
    /\ TrAccepts(TrHead)
    /\ queue' = TrAcknowledged
    /\ tr' = [tr EXCEPT !.pc = "returned", !.batch = <<>>,
                        !.result = [present |-> TRUE, id |-> TrHead.id,
                                    raw |-> ~tr.parse_google_chat,
                                    type |-> TrHead.type, email |-> TrHead.email,
                                    text |-> TrHead.text, thread |-> TrHead.thread]]
    /\ UNCHANGED <<published, besideTr>>

\* subscriber.acknowledge raised: nothing in _wait_for_message_sync catches
\* it.
TAckFail ==
    /\ tr.pc = "batch"
    /\ tr.batch # <<>>
    /\ tr.acknowledge_message
    /\ ~(tr.parse_google_chat /\ TrHead.shape = "nonobject")
    /\ tr' = [tr EXCEPT !.pc = "raised", !.batch = <<>>]
    /\ UNCHANGED <<queue, published, besideTr>>

\* get_response has built its Message (or the exception reached the host).
TFinish ==
    /\ tr.pc \in {"returned", "raised"}
    /\ tr' = TrIdle
    /\ UNCHANGED <<queue, published, besideTr>>

\* --------------------------------------------- ChatWorker.run_polling
\* Seconds the worker sleeps after an error in an iteration.
worker_backoff == 5

\* running: self.running; taken: ids of the messages this iteration (or this
\* callback) received.
WkIdle ==
    [pc |-> "idle", bot_email |-> <<>>, batch |-> <<>>, handled |-> NoResult,
     running |-> TRUE, taken |-> {}]

\* ChatWorker.__init__: bot_email falls back to the service account's
\* client_email.
worker_bot_email(bot_email, client_email) ==
    IF bot_email # <<>> THEN bot_email ELSE client_email

\* _parse_chat_message returns a dict (not None).
parses_as_chat_message(m) == m.shape = "ok" /\ m.type = "MESSAGE"

\* Mutant: bot messages are processed too.
should_process_AnySender(bot_email, parsed) == Strip(parsed.text) # <<>>

\* _should_process
should_process(bot_email, parsed) ==
    /\ ~(bot_email # <<>> /\ Contains(bot_email, parsed.email))
    /\ Strip(parsed.text) # <<>>

WkHead == Head(wk.batch)

\* One iteration of `while self.running` begins.
WStart(bot_email, client_email) ==
    /\ AllIdle
    /\ wk.running
    /\ wk' = [WkIdle EXCEPT !.pc = "pull",
                            !.bot_email = worker_bot_email(bot_email, client_email)]
    /\ UNCHANGED <<queue, published, besideWk>>

\* subscriber.pull returned.
WPullOk ==
    /\ wk.pc = "pull"
    /\ wk' = [wk EXCEPT !.pc = "batch", !.batch = Pull(queue),
                        !.taken = {Pull(queue)[i].id : i \in 1..Len(Pull(queue))}]
    /\ UNCHANGED <<queue, published, besideWk>>

\* subscriber.pull raised: FuturesTimeoutError passes, anything else is
\* logged and followed by sleep(5).
WPullFail ==
    /\ wk.pc = "pull"
    /\ wk' = [wk EXCEPT !.pc = "backoff"]
    /\ UNCHANGED <<queue, published, besideWk>>

\* What _process_message hands to _call_langflow, if anything.
WkHandled ==
    IF parses_as_chat_message(WkHead) /\ should_process(wk.bot_email, WkHead)
    THEN [present |-> TRUE, id |-> WkHead.id, raw |-> FALSE,
          type |-> WkHead.type, email |-> WkHead.email, text |-> WkHead.text,
          thread |-> WkHead.thread]
    ELSE wk.handled

\* _process_message, then acknowledge.
WProcess ==
    /\ wk.pc = "batch"
    /\ wk.batch # <<>>
    /\ WkHead.shape # "nonobject"
    /\ queue' = Acknowledge(queue, WkHead.id)
    /\ wk' = [wk EXCEPT !.batch = Tail(@), !.handled = WkHandled]
    /\ UNCHANGED <<published, besideWk>>

\* message_data.get raised AttributeError in _parse_chat_message: the
\* iteration's `except Exception` ends the batch before the acknowledge.
WProcessEscape ==
    /\ wk.pc = "batch"
    /\ wk.batch # <<>>
    /\ WkHead.shape = "nonobject"
    /\ wk' = [wk EXCEPT !.pc = "backoff", !.batch = <<>>]
    /\ UNCHANGED <<queue, published, besideWk>>

\* _process_message returned and subscriber.acknowledge raised.
WAckFail ==
    /\ wk.pc = "batch"
    /\ wk.batch # <<>>
    /\ WkHead.shape # "nonobject"
    /\ wk' = [wk EXCEPT !.pc = "backoff", !.batch = <<>>, !.handled = WkHandled]
    /\ UNCHANGED <<queue, published, besideWk>>

\* The for loop is exhausted, or the back-off is over: the iteration ends,
\* and `while self.running` ends the loop once a signal has cleared the flag.
WIterationEnd ==
    /\ \/ wk.pc = "batch" /\ wk.batch = <<>>
       \/ wk.pc = "backoff"
    /\ wk' = IF wk.running THEN WkIdle ELSE [wk EXCEPT !.pc = "exited"]
    /\ UNCHANGED <<queue, published, besideWk>>

\* SIGINT or SIGTERM in polling mode: the handler clears self.running and
\* returns; the pull or the for loop in progress goes on, and the loop test
\* is what ends run_polling.
WStop ==
    /\ wk.running
    /\ wk.pc \in {"idle", "pull", "batch", "backoff"}
    /\ wk' = [wk EXCEPT !.running = FALSE,
                        !.pc = IF wk.pc = "idle" THEN "exited" ELSE wk.pc]
    /\ UNCHANGED <<queue, published, besideWk>>

\* ---- ChatWorker.run_streaming: the subscriber hands every message it
\* receives to ChatWorker.callback.
\* The streaming pull delivers one unacknowledged message to callback.
WCallback(bot_email, client_email) ==
    /\ AllIdle
    /\ wk.running
    /\ \E i \in 1..Len(queue) :
          wk' = [WkIdle EXCEPT !.pc = "callback",
                               !.bot_email = worker_bot_email(bot_email, client_email),
                               !.batch = <<queue[i]>>,
                               !.taken = {queue[i].id}]
    /\ UNCHANGED <<queue, published, besideWk>>

\* callback: _process_message returns, or raises and is logged; `finally`
\* acknowledges the message either way.
WCallbackProcess ==
    /\ wk.pc = "callback"
    /\ wk.batch # <<>>
    /\ queue' = Acknowledge(queue, WkHead.id)
    /\ wk' = [wk EXCEPT !.batch = <<>>,
                        !.handled = IF WkHead.shape = "nonobject" THEN @ ELSE WkHandled]
    /\ UNCHANGED <<published, besideWk>>

\* callback returns.
WCallbackEnd ==
    /\ wk.pc = "callback"
    /\ wk.batch = <<>>
    /\ wk' = WkIdle
    /\ UNCHANGED <<queue, published, besideWk>>

\* --------------------------------------------------- GoogleChatSender
\* str.startswith
StartsWith(s, prefix) ==
    Len(s) >= Len(prefix) /\ SubSeq(s, 1, Len(prefix)) = prefix

SpacesPrefix == <<"s", "p", "a", "c", "e", "s", "/">>
\* Values of the space_id input.
SpaceInputs == {<<"A">>, <<" ">> \o SpacesPrefix \o <<"A">>, <<"B">>}
\* Values of the thread_name input.
ThreadNameInputs == {<<>>, <<" ">>, <<" ">> \o T1}
\* thread.name in the Chat API's response ("" when the response has none).
ResponseThreadNames == {<<>>, T1, T2}

\* `space_id = self.space_id.strip()`, prefixed with "spaces/" if needed.
normal_space_id(space_id) ==
    IF StartsWith(Strip(space_id), SpacesPrefix) THEN Strip(space_id)
    ELSE SpacesPrefix \o Strip(space_id)

\* The characters of a thread key.
KeyText(thread_key) ==
    CASE thread_key = "K1" -> <<"K", "1">>
      [] thread_key = "K2" -> <<"K", "2">>
      [] OTHER -> <<>>

\* `cache_key = f"{space_id}:{thread_key}" if thread_key else ""`
cache_key_of(space_id, thread_key) ==
    IF thread_key # NoKey THEN space_id \o <<":">> \o KeyText(thread_key) ELSE <<>>

EmptyCache == [k \in {} |-> <<>>]

\* `GoogleChatSender._thread_cache[cache_key] = thread_name_result`
CachePut(cache, cache_key, thread_name) ==
    [k \in DOMAIN cache \cup {cache_key} |->
        IF k = cache_key THEN thread_name ELSE cache[k]]

\* payload["thread"] and the messageReplyOption flag of the url.
NoThreadReference ==
    [kind |-> "none", name |-> <<>>, threadKey |-> NoKey, reply_option |-> FALSE]

\* Mutant: a cached thread name wins over the explicit thread name.
thread_reference_CacheFirst(thread_name_input, cache_key, cache, thread_key) ==
    IF cache_key # <<>> /\ cache_key \in DOMAIN cache
    THEN [kind |-> "name", name |-> cache[cache_key], threadKey |-> NoKey,
          reply_option |-> TRUE]
    ELSE IF thread_name_input # <<>>
    THEN [kind |-> "name", name |-> thread_name_input, threadKey |-> NoKey,
          reply_option |-> TRUE]
    ELSE IF thread_key # NoKey
    THEN [kind |-> "threadKey", name |-> <<>>, threadKey |-> thread_key,
          reply_option |-> TRUE]
    ELSE NoThreadReference

\* send_message, "Add thread reference".
thread_reference(thread_name_input, cache_key, cache, thread_key) ==
    IF thread_name_input # <<>>
    THEN [kind |-> "name", name |-> thread_name_input, threadKey |-> NoKey,
          reply_option |-> TRUE]
    ELSE IF cache_key # <<>> /\ cache_key \in DOMAIN cache
    THEN [kind |-> "name", name |-> cache[cache_key], threadKey |-> NoKey,
          reply_option |-> TRUE]
    ELSE IF thread_key # NoKey
    THEN [kind |-> "threadKey", name |-> <<>>, threadKey |-> thread_key,
          reply_option |-> TRUE]
    ELSE NoThreadReference

\* Mutant: the sender asks the flow graph first and the message second.
sender_get_session_id_GraphFirst(message, graph) ==
    LET from_graph == IF graph.present THEN graph.session_id ELSE <<>>
        session_id == IF from_graph = <<>> /\ message.present
                      THEN message.session_id ELSE from_graph
    IN  Strip(session_id)

\* GoogleChatSender._get_session_id: message_input's session_id; the graph is
\* asked only while that is empty; then strip().
sender_get_session_id(message, graph) ==
    LET from_message == IF message.present THEN message.session_id ELSE <<>>
        session_id == IF from_message = <<>> /\ graph.present
                      THEN graph.session_id ELSE from_message
    IN  Strip(session_id)

\* _get_thread_key_from_firestore: "" without a session id, when the read
\* raises, when the document is missing or its thread_key is empty.
sender_thread_key(session, readOk) ==
    IF session \in Sessions /\ readOk THEN threadKeys[session] ELSE NoKey

SndIdle ==
    [pc |-> "idle", clear_cache |-> FALSE, space_id |-> <<>>,
     thread_name_input |-> <<>>, thread_key |-> NoKey, cache_key |-> <<>>,
     request |-> NoThreadReference, posts |-> 0, thread_name_result |-> <<>>,
     message |-> NoMessage, graph |-> NoGraph, session |-> <<>>, read_ok |-> FALSE]

\* send_message up to the request: the cache is cleared first if asked;
\* missing or unparsable credentials and a failing token refresh raise; then
\* the thread key is looked up and the thread reference chosen.
SStart(clear_cache, credsOk, tokenOk, readOk, space, thread_name, message, graph) ==
    /\ AllIdle
    /\ thread_cache' = IF clear_cache THEN EmptyCache ELSE thread_cache
    /\ snd' =
         IF ~credsOk \/ ~tokenOk
         THEN [SndIdle EXCEPT !.pc = "raised", !.clear_cache = clear_cache]
         ELSE LET space_id == normal_space_id(space)
                  thread_name_input == Strip(thread_name)
                  session_id == sender_get_session_id(message, graph)
                  thread_key == sender_thread_key(session_id, readOk)
                  cache_key == cache_key_of(space_id, thread_key)
              IN  [SndIdle EXCEPT
                     !.pc = "post",
                     !.clear_cache = clear_cache,
                     !.space_id = space_id,
                     !.thread_name_input = thread_name_input,
                     !.thread_key = thread_key,
                     !.cache_key = cache_key,
                     !.message = message,
                     !.graph = graph,
                     !.session = session_id,
                     !.read_ok = readOk,
                     !.request = thread_reference(thread_name_input, cache_key,
                                                  thread_cache', thread_key)]
    /\ UNCHANGED besideSnd

\* Mutant: a successful send leaves the cache as it was.
SPostOk_NoCache(thread_name_result) ==
    /\ snd.pc = "post"
    /\ snd' = [snd EXCEPT !.pc = "returned", !.posts = @ + 1,
                          !.thread_name_result = thread_name_result]
    /\ UNCHANGED <<thread_cache, besideSnd>>

\* requests.post succeeded: the response's thread name is kept and, with a
\* cache key, cached.
SPostOk(thread_name_result) ==
    /\ snd.pc = "post"
    /\ thread_cache' =
         IF snd.cache_key # <<>> /\ thread_name_result # <<>>
         THEN CachePut(thread_cache, snd.cache_key, thread_name_result)
         ELSE thread_cache
    /\ snd' = [snd EXCEPT !.pc = "returned", !.posts = @ + 1,
                          !.thread_name_result = thread_name_result]
    /\ UNCHANGED besideSnd

\* Mutant: a failed request is sent once more before the error is raised.
SPostFail_Retry ==
    /\ snd.pc = "post"
    /\ snd' = [snd EXCEPT !.pc = IF snd.posts = 0 THEN "post" ELSE "raised",
                          !.posts = @ + 1]
    /\ UNCHANGED <<thread_cache, besideSnd>>

\* requests.post or raise_for_status raised RequestException: logged and
\* re-raised.
SPostFail ==
    /\ snd.pc = "post"
    /\ snd' = [snd EXCEPT !.pc = "raised", !.posts = @ + 1]
    /\ UNCHANGED <<thread_cache, besideSnd>>

\* The Data was returned (or the exception reached the host).
SFinish ==
    /\ snd.pc \in {"returned", "raised"}
    /\ snd' = SndIdle
    /\ UNCHANGED <<thread_cache, besideSnd>>

\* ------------------------------------------------- GoogleChatReceiver
\* rcv.pulled is the batch the pull returned ("none" before a pull has
\* returned), rcv.batch what the for loop has still to look at.
RcvIdle ==
    [pc |-> "idle", bot_email |-> <<>>, thread_filter |-> <<>>,
     acknowledge_messages |-> TRUE, pulled |-> <<>>, has_pulled |-> FALSE,
     batch |-> <<>>, ack_ids |-> <<>>, filtered_messages |-> <<>>,
     pull_failed |-> FALSE, ack_failed |-> FALSE]

\* _get_thread_name_filter
get_thread_name_filter(sender_thread, manual) ==
    IF sender_thread # <<>> THEN sender_thread
    ELSE IF manual # <<>> /\ Strip(manual) # <<>> THEN Strip(manual)
    ELSE <<>>

\* _parse_chat_message returns None: the payload is not JSON, is JSON but
\* not an object (AttributeError), or is not a MESSAGE event.
parse_chat_message_is_none(m) ==
    m.shape \in {"badjson", "nonobject"} \/ (m.shape = "ok" /\ m.type # "MESSAGE")

\* The two `continue` tests of _fetch_messages on a parsed message: from the
\* bot, or from another thread than the filter's.
receiver_skips(m, bot_email, thread_filter) ==
    \/ bot_email # <<>> /\ Contains(bot_email, m.email)
    \/ thread_filter # <<>> /\ m.thread # thread_filter

\* _fetch_messages up to the pull: an empty or unparsable service-account
\* JSON raises ValueError, a failing client constructor raises too.
FStart(credsOk, clientOk, bot_email, client_email, sender_thread, manual, acknowledge_messages) ==
    /\ AllIdle
    /\ rcv' = IF ~credsOk \/ ~clientOk THEN [RcvIdle EXCEPT !.pc = "raised"]
              ELSE [RcvIdle EXCEPT
                      !.pc = "pull",
                      !.thread_filter = get_thread_name_filter(sender_thread, manual),
                      !.bot_email = IF bot_email # <<>> THEN bot_email
                                    ELSE client_email,
                      !.acknowledge_messages = acknowledge_messages]
    /\ UNCHANGED <<queue, published, besideRcv>>

\* subscriber.pull returned.
FPullOk ==
    /\ rcv.pc = "pull"
    /\ rcv' = [rcv EXCEPT !.pc = "batch", !.pulled = Pull(queue),
                          !.has_pulled = TRUE, !.batch = Pull(queue)]
    /\ UNCHANGED <<queue, published, besideRcv>>

\* subscriber.pull raised: logged, `return []`.
FPullFail ==
    /\ rcv.pc = "pull"
    /\ rcv' = [rcv EXCEPT !.pc = "returned", !.pull_failed = TRUE]
    /\ UNCHANGED <<queue, published, besideRcv>>

\* The for loop on a message that is unparseable, not a MESSAGE event, from
\* the bot or from another thread: its ack_id is collected, `continue`.
FSkip ==
    /\ rcv.pc = "batch"
    /\ rcv.batch # <<>>
    /\ Head(rcv.batch).shape # "badutf8"
    /\ \/ parse_chat_message_is_none(Head(rcv.batch))
       \/ receiver_skips(Head(rcv.batch), rcv.bot_email, rcv.thread_filter)
    /\ rcv' = [rcv EXCEPT !.batch = Tail(@),
                          !.ack_ids = IF rcv.acknowledge_messages
                                      THEN Append(@, Head(rcv.batch).id) ELSE @]
    /\ UNCHANGED <<queue, published, besideRcv>>

\* The for loop on a message that passes: appended to filtered_messages,
\* its ack_id collected.
FKeep ==
    /\ rcv.pc = "batch"
    /\ rcv.batch # <<>>
    /\ Head(rcv.batch).shape # "badutf8"
    /\ ~parse_chat_message_is_none(Head(rcv.batch))
    /\ ~receiver_skips(Head(rcv.batch), rcv.bot_email, rcv.thread_filter)
    /\ rcv' = [rcv EXCEPT !.batch = Tail(@),
                          !.filtered_messages = Append(@, Head(rcv.batch)),
                          !.ack_ids = IF rcv.acknowledge_messages
                                      THEN Append(@, Head(rcv.batch).id) ELSE @]
    /\ UNCHANGED <<queue, published, besideRcv>>

\* data.decode("utf-8") raised UnicodeDecodeError, which the except clause
\* of _parse_chat_message (JSONDecodeError, AttributeError) does not name:
\* it leaves _fetch_messages before the acknowledge call.
FDecodeEscape ==
    /\ rcv.pc = "batch"
    /\ rcv.batch # <<>>
    /\ Head(rcv.batch).shape = "badutf8"
    /\ rcv' = [rcv EXCEPT !.pc = "raised"]
    /\ UNCHANGED <<queue, published, besideRcv>>

\* After the loop: one acknowledge call for the collected ack_ids, if any,
\* then `return filtered_messages`.
FAcknowledge ==
    /\ rcv.pc = "batch"
    /\ rcv.batch = <<>>
    /\ queue' = IF rcv.ack_ids # <<>> /\ rcv.acknowledge_messages
                THEN SelectSeq(queue,
                       LAMBDA m : \A i \in 1..Len(rcv.ack_ids) : rcv.ack_ids[i] # m.id)
                ELSE queue
    /\ rcv' = [rcv EXCEPT !.pc = "returned"]
    /\ UNCHANGED <<published, besideRcv>>

\* subscriber.acknowledge raised: a warning is logged, the messages are
\* returned all the same.
FAckFail ==
    /\ rcv.pc = "batch"
    /\ rcv.batch = <<>>
    /\ rcv.ack_ids # <<>> /\ rcv.acknowledge_messages
    /\ rcv' = [rcv EXCEPT !.pc = "returned", !.ack_failed = TRUE]
    /\ UNCHANGED <<queue, published, besideRcv>>

\* The list was returned (or the exception reached the caller).
FFinish ==
    /\ rcv.pc \in {"returned", "raised"}
    /\ rcv' = RcvIdle
    /\ UNCHANGED <<queue, published, besideRcv>>

\* The events that can be on the receiver's subscription: those of
\* ChatEvents and a payload that is not UTF-8.
ReceiverEvents ==
    ChatEvents \cup {ChatEvent("badutf8", "", <<>>, <<>>, <<>>)}

\* --------------------------------------------------- OperatorTakeover
\* Default of the operator_mention_prefix input.
DefaultMentionPrefix ==
    <<"@", "m", "a", "n", "a", "g", "e", "r", "-", "a", "i", "-", "d", "e", "v",
      "-", "c", "h", "a", "t">>

\* Mutant: the prefix is compared without regard to case.
check_and_flag_IgnoreCase(text, content, mention_prefix) ==
    LET message_text == IF text # <<>> THEN text ELSE content
        operator_mention_prefix ==
            IF mention_prefix # <<>> THEN mention_prefix ELSE DefaultMentionPrefix
        operator_takeover ==
            StartsWith(Lower(message_text), Lower(operator_mention_prefix))
    IN  [operator_takeover |-> operator_takeover,
         message_text |-> message_text,
         input_text |-> IF operator_takeover
                        THEN LStrip(SubSeq(message_text, Len(operator_mention_prefix) + 1,
                                           Len(message_text)))
                        ELSE text]

\* _check_and_flag: the flag, the text it examined, and message_input.text
\* when it returns.
check_and_flag(text, content, mention_prefix) ==
    LET message_text == IF text # <<>> THEN text ELSE content
        operator_mention_prefix ==
            IF mention_prefix # <<>> THEN mention_prefix ELSE DefaultMentionPrefix
        operator_takeover == StartsWith(message_text, operator_mention_prefix)
    IN  [operator_takeover |-> operator_takeover,
         message_text |-> message_text,
         input_text |-> IF operator_takeover
                        THEN LStrip(SubSeq(message_text, Len(operator_mention_prefix) + 1,
                                           Len(message_text)))
                        ELSE text]

\* check_takeover: the flagged input message, or Message(text="").
check_takeover(text, content, mention_prefix) ==
    LET msg == check_and_flag(text, content, mention_prefix)
    IN  [operator_takeover |-> msg.operator_takeover,
         message_text |-> msg.message_text,
         input_text |-> msg.input_text,
         returned_text |-> IF msg.operator_takeover THEN msg.input_text ELSE <<>>]

\* ------------------------------------------- helper methods on their own
NoCalc == [fn |-> "none"]

\* Records _check_human_timeout can be given, limits and clock values.
ActivityValues == {NoTime, Malformed} \cup 0..MaxTime
TimeoutInputs == 0..MaxTime

\* The timeout test of _route on a state, a limit and a clock value, and
\* current_controller after it.
TimeoutCall(controller, last_human_activity, timeout_minutes, t) ==
    LET state == [DefaultState EXCEPT
                    !.exists = TRUE, !.controller = controller,
                    !.last_human_activity = last_human_activity]
        timed_out == human_timed_out(state, timeout_minutes, t)
    IN  /\ calc' = [fn |-> "human_timed_out", controller |-> controller,
                    last_human_activity |-> last_human_activity,
                    timeout_minutes |-> timeout_minutes, t |-> t,
                    result |-> timed_out,
                    current_controller |-> IF timed_out THEN "AI" ELSE controller]
        /\ UNCHANGED besideCalc

\* Texts of operator messages and values of the handoff_keywords input.
HandoffTexts ==
    { <<>>, Hi, AtAI, <<" ">> \o AtAI \o <<" ">>, <<"@", "a", "i">>,
      Hi \o <<" ">> \o AtAI, <<"/", "a", "i">>, <<"a", " ", "i">>, <<",">> }
HandoffKeywordInputs ==
    { DefaultHandoffKeywords, <<>>, <<" ">>, <<",">>, <<" ", ",", " ", ",">>,
      <<" ">> \o AtAI \o <<" ">>, <<"H", "I", ",", ",", "/", "a", "i">>,
      <<"a", " ", "i", ",">>, <<"@", ",", "a", "i">> }

\* _is_handoff_message on a text and a keyword list.
HandoffCall(text, handoff_keywords) ==
    /\ calc' = [fn |-> "is_handoff_message", text |-> text,
                handoff_keywords |-> handoff_keywords,
                result |-> is_handoff_message(text, handoff_keywords)]
    /\ UNCHANGED besideCalc

\* Values of the operator_mention_prefix input ("" selects the default) and
\* texts of messages.
AtH == <<"@", "H">>
MentionPrefixInputs == {<<>>, AtH, <<"@", "h">>}
TakeoverTexts ==
    { <<>>, Hi, AtH, AtH \o Hi, AtH \o <<" ", " ">> \o Hi, <<"@", "h", " ">> \o Hi,
      <<" ">> \o AtH \o Hi, Hi \o AtH, <<"@">>, DefaultMentionPrefix \o <<" ">> \o Hi }
TakeoverContents == {<<>>, AtH \o <<" ">> \o Hi}

\* check_takeover on a message and a prefix.
TakeoverCall(text, content, mention_prefix) ==
    /\ calc' = [fn |-> "check_takeover", text |-> text, content |-> content,
                mention_prefix |-> mention_prefix,
                result |-> check_takeover(text, content, mention_prefix)]
    /\ UNCHANGED besideCalc

\* ------------------------------------------------------- environment
\* A minute passes.  _route reads the clock when it tests the timeout and
\* when it writes the control state, so time advances between invocations
\* and just before those steps: every other step commutes with it.
Tick ==
    /\ now < MaxTime
    /\ gen.pc = "idle"
    /\ rt.pc \in {"idle", "read", "expire", "decide"}
    /\ now' = now + 1
    /\ UNCHANGED <<elsewhere, threadKeys, control, queue, published, gen, prevGen, rt>>

\* Google Chat publishes an event to the subscription.  Only a pull reads
\* the subscription, so an event is delivered at the latest just before the
\* next pull: every other step commutes with its arrival.
Publish(e) ==
    /\ published < MaxPublished
    /\ rt.pc = "poll"
    /\ published' = published + 1
    /\ queue' = Append(queue, [id |-> published + 1, shape |-> e.shape,
                               type |-> e.type, email |-> e.email, text |-> e.text])
    /\ UNCHANGED <<elsewhere, now, threadKeys, control, gen, prevGen, rt>>

\* Google Chat publishes an event, with its thread, to the subscription a
\* poller is about to pull from.
PublishChat(e) ==
    /\ published < MaxPublished
    /\ rt.pc = "poll" \/ tr.pc = "poll" \/ wk.pc = "pull" \/ rcv.pc = "pull"
    /\ published' = published + 1
    /\ queue' = Append(queue, [id |-> published + 1, shape |-> e.shape,
                               type |-> e.type, email |-> e.email,
                               text |-> e.text, thread |-> e.thread])
    /\ UNCHANGED <<now, threadKeys, control, gen, prevGen, rt, cgen, crt, chist,
                   tr, wk, snd, thread_cache, calc, rcv>>

\* The state every specification starts from, but for the thread_keys
\* collection.
InitCommon ==
    /\ now = 0
    /\ control = [k \in Keys |-> NoDoc]
    /\ queue = <<>>
    /\ published = 0
    /\ gen = GenIdle
    /\ prevGen = NoPrevGen
    /\ rt = RtIdle
    /\ cgen = [p \in Procs |-> CGenIdle]
    /\ crt = [p \in Procs |-> CRtIdle]
    /\ chist = NoHistory
    /\ tr = TrIdle
    /\ wk = WkIdle
    /\ snd = SndIdle
    /\ thread_cache = EmptyCache
    /\ calc = NoCalc
    /\ rcv = RcvIdle

\* ---- Spec: GoogleChatHumanTakeover over the control-state collection and
\* the subscription.  thread_keys is as earlier ThreadKeyGenerator runs left
\* it: the session has no key, or one of the keys.
Init ==
    /\ InitCommon
    /\ threadKeys \in [Sessions -> Keys \cup {NoKey}]

Next ==
    \/ \E m \in MessageInputs, g \in GraphInputs, credsOk \in BOOLEAN,
          c \in CheckTimeouts, b \in BotEmailInputs, ce \in ClientEmails :
            RStart(m, g, credsOk, c, b, ce)
    \/ RLookupOk
    \/ RLookupFail
    \/ \E t \in HumanTimeouts : RReadState(t)
    \/ RReadStateFail
    \/ RTimeoutWrite
    \/ RWriteFail
    \/ RPollExpire
    \/ \E secs \in PullDurations : RPullOk(secs)
    \/ \E secs \in PullDurations : RPullFail(secs)
    \/ RBatchEnd
    \/ RParseError
    \/ RDecodeEscape
    \/ RAckFiltered
    \/ RAccept
    \/ RAckFail
    \/ RHumanMessage
    \/ RNoHumanMessage
    \/ RFinish
    \/ Tick
    \/ \E e \in Events : Publish(e)

Spec == Init /\ [][Next]_vars

\* ---- SpecKeys: the thread_keys collection, from empty, under
\* ThreadKeyGenerator invocations and the invocations of its reader
\* GoogleChatHumanTakeover on a subscription where no event arrives.
InitKeys ==
    /\ InitCommon
    /\ threadKeys = [s \in Sessions |-> NoKey]

NextKeys ==
    \/ \E m \in MessageInputs, g \in GraphInputs, credsOk \in BOOLEAN,
          clientOk \in BOOLEAN, fresh \in Keys :
            GenStart(m, g, credsOk, clientOk, fresh)
    \/ \E fresh \in Keys : GenReadOk(fresh)
    \/ \E fresh \in Keys : GenReadFail(fresh)
    \/ GenWriteOk
    \/ GenWriteFail
    \/ GenReturn
    \/ \E m \in MessageInputs, g \in GraphInputs, credsOk \in BOOLEAN,
          c \in CheckTimeouts, b \in BotEmailInputs, ce \in ClientEmails :
            RStart(m, g, credsOk, c, b, ce)
    \/ RLookupOk
    \/ RLookupFail
    \/ \E t \in HumanTimeouts : RReadState(t)
    \/ RReadStateFail
    \/ RPollExpire
    \/ \E secs \in PullDurations : RPullOk(secs)
    \/ \E secs \in PullDurations : RPullFail(secs)
    \/ RBatchEnd
    \/ RNoHumanMessage
    \/ RFinish
    \/ Tick

SpecKeys == InitKeys /\ [][NextKeys]_vars

\* ---- SpecRace: two ThreadKeyGenerator invocations that may interleave,
\* on a thread_keys collection that starts empty.
NextRace ==
    \/ \E p \in Procs, m \in MessageInputs, g \in GraphInputs, credsOk \in BOOLEAN,
          clientOk \in BOOLEAN, fresh \in Keys :
            CGenStart(p, m, g, credsOk, clientOk, fresh)
    \/ \E p \in Procs, fresh \in Keys : CGenReadOk(p, fresh)
    \/ \E p \in Procs, fresh \in Keys : CGenReadFail(p, fresh)
    \/ \E p \in Procs : CGenWriteOk(p)
    \/ \E p \in Procs : CGenWriteFail(p)
    \/ CGenFinish

SpecRace == InitKeys /\ [][NextRace]_vars

\* ---- SpecOverlap: router invocations for one session, whose thread key
\* is stored, that the host may start while another is in progress.
InitOverlap ==
    /\ now = 0
    /\ control = [k \in Keys |-> NoDoc]
    /\ queue = <<>>
    /\ published = 0
    /\ gen = GenIdle
    /\ prevGen = NoPrevGen
    /\ rt = RtIdle
    /\ cgen = [p \in Procs |-> CGenIdle]
    /\ crt = [p \in Procs |-> CRtIdle]
    /\ chist \in {[NoHistory EXCEPT !.mode = m] : m \in HostModes}
    /\ tr = TrIdle
    /\ wk = WkIdle
    /\ snd = SndIdle
    /\ thread_cache = EmptyCache
    /\ calc = NoCalc
    /\ rcv = RcvIdle
    /\ threadKeys = [s \in Sessions |-> "K1"]

NextOverlap ==
    \/ \E p \in Procs, c \in CheckTimeouts, t \in HumanTimeouts : CRStart(p, c, t)
    \/ \E p \in Procs : CRTimeoutWrite(p)
    \/ \E p \in Procs : CRWriteFail(p)
    \/ \E p \in Procs : CRPollExpire(p)
    \/ \E p \in Procs, secs \in PullDurations : CRPullOk(p, secs)
    \/ \E p \in Procs : CRAckFiltered(p)
    \/ \E p \in Procs : CRAccept(p)
    \/ \E p \in Procs : CRHumanMessage(p)
    \/ \E p \in Procs : CRFinish(p)
    \/ \E e \in OperatorEvents : CPublish(e)
    \/ CTick

SpecOverlap == InitOverlap /\ [][NextOverlap]_vars

\* ---- SpecPollers: the three consumers of the subscription, one at a time:
\* GoogleChatHumanTakeover's queue check, GooglePubSubTrigger and an
\* iteration of ChatWorker.run_polling.  The session has a thread key and
\* the clock of the control state stands still.
InitPollers ==
    /\ InitCommon
    /\ threadKeys = [s \in Sessions |-> "K1"]

NextPollers ==
    \/ \E m \in MessageInputs, g \in GraphInputs, credsOk \in BOOLEAN,
          c \in CheckTimeouts, b \in BotEmailInputs, ce \in ClientEmails :
            RStart(m, g, credsOk, c, b, ce)
    \/ RLookupOk
    \/ \E t \in HumanTimeouts : RReadState(t)
    \/ RPollExpire
    \/ \E secs \in PullDurations : RPullOk(secs)
    \/ \E secs \in PullDurations : RPullFail(secs)
    \/ RBatchEnd
    \/ RParseError
    \/ RDecodeEscape
    \/ RAckFiltered
    \/ RAccept
    \/ RAckFail
    \/ RHumanMessage
    \/ RNoHumanMessage
    \/ RFinish
    \/ \E credsOk \in BOOLEAN, clientOk \in BOOLEAN, w \in WaitTimeouts,
          b \in TriggerBotEmails, st \in SenderResultThreads,
          mf \in ManualThreadFilters, parse \in BOOLEAN, ack \in BOOLEAN :
            TStart(credsOk, clientOk, w, b, st, mf, parse, ack)
    \/ TTimeout
    \/ \E secs \in TriggerPullDurations : TPullOk(secs)
    \/ TPullDeadline
    \/ \E secs \in TriggerPullDurations : TPullError(secs)
    \/ TBatchEnd
    \/ TDecodeError
    \/ TNotObject
    \/ TSkip
    \/ TAccept
    \/ TAckFail
    \/ TFinish
    \/ \E b \in BotEmailInputs, ce \in ClientEmails : WStart(b, ce)
    \/ WPullOk
    \/ WPullFail
    \/ WProcess
    \/ WProcessEscape
    \/ WAckFail
    \/ WIterationEnd
    \/ \E b \in BotEmailInputs, ce \in ClientEmails : WCallback(b, ce)
    \/ WCallbackProcess
    \/ WCallbackEnd
    \/ \E e \in ChatEvents : PublishChat(e)

SpecPollers == InitPollers /\ [][NextPollers]_vars

\* ---- SpecSender: GoogleChatSender invocations, one at a time, over the
\* thread_keys collection as ThreadKeyGenerator left it and the class-level
\* thread cache, empty when the process starts.
InitSender ==
    /\ InitCommon
    /\ threadKeys \in [Sessions -> Keys \cup {NoKey}]

NextSender ==
    \/ \E clear_cache \in BOOLEAN, credsOk \in BOOLEAN, tokenOk \in BOOLEAN,
          readOk \in BOOLEAN, space \in SpaceInputs, tn \in ThreadNameInputs,
          m \in MessageInputs, g \in GraphInputs :
            SStart(clear_cache, credsOk, tokenOk, readOk, space, tn, m, g)
    \/ \E n \in ResponseThreadNames : SPostOk(n)
    \/ SPostFail
    \/ SFinish

SpecSender == InitSender /\ [][NextSender]_vars

\* ---- SpecFunctions: the helper methods that read nothing but their
\* arguments, called on their own with arguments from small sets.
InitFunctions ==
    /\ InitCommon
    /\ threadKeys = [s \in Sessions |-> NoKey]

NextFunctions ==
    \/ \E c \in {"AI", "HUMAN"}, a \in ActivityValues, m \in TimeoutInputs,
          t \in 0..MaxTime : TimeoutCall(c, a, m, t)
    \/ \E text \in HandoffTexts, k \in HandoffKeywordInputs : HandoffCall(text, k)
    \/ \E text \in TakeoverTexts, c \in TakeoverContents, p \in MentionPrefixInputs :
          TakeoverCall(text, c, p)

SpecFunctions == InitFunctions /\ [][NextFunctions]_vars

\* ---- SpecWorker: the standalone worker alone on the subscription, in
\* either run mode, with a stop signal.
InitWorker ==
    /\ InitCommon
    /\ threadKeys = [s \in Sessions |-> NoKey]

NextWorker ==
    \/ \E b \in BotEmailInputs, ce \in ClientEmails : WStart(b, ce)
    \/ WPullOk
    \/ WPullFail
    \/ WProcess
    \/ WProcessEscape
    \/ WAckFail
    \/ WIterationEnd
    \/ WStop
    \/ \E b \in BotEmailInputs, ce \in ClientEmails : WCallback(b, ce)
    \/ WCallbackProcess
    \/ WCallbackEnd
    \/ \E e \in ChatEvents : PublishChat(e)

SpecWorker == InitWorker /\ [][NextWorker]_vars

\* ---- SpecAgree: ThreadKeyGenerator, GoogleChatHumanTakeover (operator
\* messages arriving on its subscription) and GoogleChatSender, one
\* invocation at a time, over thread_keys and conversation_control
\* collections that start empty.
NextAgree ==
    \/ \E m \in MessageInputs, g \in GraphInputs, credsOk \in BOOLEAN,
          clientOk \in BOOLEAN, fresh \in Keys :
            GenStart(m, g, credsOk, clientOk, fresh)
    \/ \E fresh \in Keys : GenReadOk(fresh)
    \/ \E fresh \in Keys : GenReadFail(fresh)
    \/ GenWriteOk
    \/ GenWriteFail
    \/ GenReturn
    \/ \E m \in MessageInputs, g \in GraphInputs, credsOk \in BOOLEAN,
          c \in CheckTimeouts :
            RStart(m, g, credsOk, c, BotEmail, BotEmail)
    \/ RLookupOk
    \/ RLookupFail
    \/ RReadState(0)
    \/ RReadStateFail
    \/ RWriteFail
    \/ RPollExpire
    \/ RPullOk(2)
    \/ RBatchEnd
    \/ RAccept
    \/ RHumanMessage
    \/ RNoHumanMessage
    \/ Publish(Event("ok", "MESSAGE", HumanEmail, Hi))
    \/ RFinish
    \/ \E credsOk \in BOOLEAN, readOk \in BOOLEAN, m \in MessageInputs,
          g \in GraphInputs :
            SStart(FALSE, credsOk, TRUE, readOk, <<"A">>, <<>>, m, g)
    \/ \E n \in {<<>>, T1} : SPostOk(n)
    \/ SPostFail
    \/ SFinish

SpecAgree == InitKeys /\ [][NextAgree]_vars

\* ---- SpecReceiver: GoogleChatReceiver._fetch_messages calls, one at a
\* time, on a subscription that receives Google Chat events.
NextReceiver ==
    \/ \E credsOk \in BOOLEAN, clientOk \in BOOLEAN, b \in BotEmailInputs,
          ce \in ClientEmails, st \in SenderResultThreads,
          mf \in ManualThreadFilters, ack \in BOOLEAN :
            FStart(credsOk, clientOk, b, ce, st, mf, ack)
    \/ FPullOk
    \/ FPullFail
    \/ FSkip
    \/ FKeep
    \/ FDecodeEscape
    \/ FAcknowledge
    \/ FAckFail
    \/ FFinish
    \/ \E e \in ReceiverEvents : PublishChat(e)

SpecReceiver == InitPollers /\ [][NextReceiver]_vars

\* ---- SpecRepoll: the router and the trigger polling the subscription again
\* and again, with every call able to fail, under the assumption that a call
\* that is made again and again succeeds in the end.
RepollStart ==
    \E b \in BotEmailInputs :
        RStart([present |-> TRUE, session_id |-> S1], NoGraph, TRUE, 3, b, BotEmail)

NextRepoll ==
    \/ RepollStart
    \/ RLookupOk
    \/ \E t \in HumanTimeouts : RReadState(t)
    \/ RPollExpire
    \/ \E secs \in PullDurations : RPullOk(secs)
    \/ \E secs \in PullDurations : RPullFail(secs)
    \/ RBatchEnd
    \/ RParseError
    \/ RDecodeEscape
    \/ RAckFiltered
    \/ RAccept
    \/ RAckFail
    \/ RHumanMessage
    \/ RNoHumanMessage
    \/ RFinish
    \/ \E b \in TriggerBotEmails, mf \in ManualThreadFilters, ack \in BOOLEAN :
          TStart(TRUE, TRUE, 3, b, <<>>, mf, TRUE, ack)
    \/ TTimeout
    \/ \E secs \in TriggerPullDurations : TPullOk(secs)
    \/ TPullDeadline
    \/ \E secs \in TriggerPullDurations : TPullError(secs)
    \/ TBatchEnd
    \/ TDecodeError
    \/ TNotObject
    \/ TSkip
    \/ TAccept
    \/ TAckFail
    \/ TFinish
    \/ \E e \in ChatEvents : PublishChat(e)

FairRepoll ==
    /\ SF_vars(RepollStart)
    /\ SF_vars(RLookupOk)
    /\ SF_vars(\E t \in HumanTimeouts : RReadState(t))
    /\ SF_vars(\E secs \in PullDurations : RPullOk(secs))
    /\ SF_vars(RAccept)
    /\ SF_vars(RAckFiltered)
    /\ WF_vars(RParseError \/ RBatchEnd \/ RPollExpire \/ RHumanMessage
                  \/ RNoHumanMessage \/ RFinish)

SpecRepoll == InitPollers /\ [][NextRepoll]_vars /\ FairRepoll

\* A human message is on the subscription with nothing before it that makes
\* the router's for loop escape.
HumanWaiting(id) ==
    \E i \in 1..Len(queue) :
        /\ queue[i].id = id
        /\ queue[i].shape = "ok" /\ queue[i].type = "MESSAGE"
        /\ queue[i].email = HumanEmail
        /\ \A j \in 1..(i - 1) : queue[j].shape # "nonobject"

\* Under SpecRepoll, if the pollers keep finishing, a human message left on
\* the subscription is taken off it by a later poll (which, by C35, is a poll
\* that examines it).
Repoll_WaitingIsTaken ==
    ([]<>AllIdle) => \A id \in 1..MaxPublished :
        (HumanWaiting(id) ~> ~\E i \in 1..Len(queue) : queue[i].id = id)

\* ======================================================== the claims
\* The thread key of the invocation in progress, its stored control document
\* and what the queue check handed to _route.
Key == rt.thread_key
Doc == control[rt.thread_key]
Resolved == rt.thread_key # NoKey
Handoff == is_handoff_message(rt.human_msg.text, DefaultHandoffKeywords)
\* The state read at the start had controller HUMAN and a last_human_activity
\* more than human_timeout_minutes before the clock value of the test.
Exceeded ==
    /\ rt.state.controller = "HUMAN"
    /\ rt.state.last_human_activity # NoTime
    /\ rt.checked_at - rt.state.last_human_activity > rt.human_timeout_minutes
\* The invocation has read the control state.
PastRead == rt.pc \in {"expire", "poll", "batch", "decide", "returned"} /\ Resolved

\* C1: every invocation of _route that resolved a thread key, got from the
\* queue check a human message matching no handoff keyword and returns, has
\* written controller HUMAN with last_human_activity = the current time to
\* that key's control document (last of its writes) and returns route HUMAN
\* with a message carrying exactly that text, whatever the state it read.
C1_TakeoverWritesHuman ==
    (rt.pc = "returned" /\ rt.human_msg.present /\ ~Handoff) =>
        /\ Resolved
        /\ Doc.exists
        /\ Doc.controller = "HUMAN"
        /\ Doc.last_human_activity = now
        /\ rt.wrote # <<>>
        /\ rt.wrote[Len(rt.wrote)] = "HUMAN"
        /\ rt.route = "HUMAN"
        /\ rt.message = [present |-> TRUE, text |-> rt.human_msg.text]

\* The case "HUMAN just timed out": the timeout write to AI came first.
C1_Witness ==
    /\ rt.pc = "returned"
    /\ rt.human_msg.present
    /\ ~Handoff
    /\ Exceeded
    /\ rt.wrote = <<"AI", "HUMAN">>
    /\ rt.message.text = Hi

\* C2: every invocation of _route whose queue check returned a human message
\* containing a handoff keyword and that returns has written controller AI
\* (last of its writes), returns route AI with no message, and
\* get_operator_message emits the empty text, not the handoff text.
C2_HandoffWritesAI ==
    (rt.pc = "returned" /\ rt.human_msg.present /\ Handoff) =>
        /\ Resolved
        /\ Doc.exists
        /\ Doc.controller = "AI"
        /\ rt.wrote # <<>>
        /\ rt.wrote[Len(rt.wrote)] = "AI"
        /\ rt.route = "AI"
        /\ ~rt.message.present
        /\ get_operator_message(rt) = <<>>
        /\ get_operator_message(rt) # rt.human_msg.text

\* A handoff command ("@AI") consumed while a human held control.
C2_Witness ==
    /\ rt.pc = "returned"
    /\ rt.human_msg.present
    /\ rt.human_msg.text = AtAI
    /\ rt.state.controller = "HUMAN"
    /\ ~Exceeded

\* C3: when the state read had controller HUMAN with last_human_activity more
\* than human_timeout_minutes in the past, the invocation writes AI first:
\* no pull is made before that write, the rest of the cycle runs with
\* current_controller AI and the stored controller AI, and if the queue check
\* finds no human message the invocation returns route AI with no message
\* and the stored controller is AI.
C3_TimeoutRevertsToAI ==
    (PastRead /\ Exceeded) =>
        /\ rt.pc = "expire" => rt.wrote = <<>> /\ "pull" \notin rt.ops
        /\ rt.pc # "expire" => rt.wrote # <<>> /\ rt.wrote[1] = "AI"
        /\ rt.pc \in {"poll", "batch", "decide"} =>
               rt.current_controller = "AI" /\ Doc.controller = "AI"
        /\ (rt.pc = "returned" /\ ~rt.human_msg.present) =>
               /\ rt.route = "AI"
               /\ ~rt.message.present
               /\ Doc.controller = "AI"
               /\ rt.wrote = <<"AI">>

\* A timed-out human, the queue polled and found silent, route AI returned.
C3_Witness ==
    /\ rt.pc = "returned"
    /\ Resolved
    /\ Exceeded
    /\ "pull" \in rt.ops
    /\ ~rt.human_msg.present
    /\ rt.route = "AI"

\* C4: when the state read has controller HUMAN, the timeout is not exceeded
\* and the queue check finds no human message, the invocation returns route
\* HUMAN with no message and has made no control-state write: the document is
\* the one it read.
C4_HumanKeepsControl ==
    (rt.pc = "returned" /\ Resolved /\ rt.state.controller = "HUMAN"
        /\ ~Exceeded /\ ~rt.human_msg.present) =>
        /\ rt.route = "HUMAN"
        /\ ~rt.message.present
        /\ rt.wrote = <<>>
        /\ "ctl_set" \notin rt.ops
        /\ Doc = rt.state

\* Elapsed time exactly at the limit, the queue polled: the human keeps control.
C4_Witness ==
    /\ rt.pc = "returned"
    /\ Resolved
    /\ rt.state.controller = "HUMAN"
    /\ rt.checked_at - rt.state.last_human_activity = rt.human_timeout_minutes
    /\ "pull" \in rt.ops
    /\ ~rt.human_msg.present
    /\ rt.route = "HUMAN"

\* C5: when the controller read is AI (stored, or the default of a missing
\* document) and the queue check finds no human message, the invocation
\* returns route AI with no message and has made no control-state write: a
\* stored document is unchanged and a missing one is still missing.
C5_AIKeepsControl ==
    (rt.pc = "returned" /\ Resolved /\ rt.state.controller = "AI"
        /\ ~rt.human_msg.present) =>
        /\ rt.route = "AI"
        /\ ~rt.message.present
        /\ rt.wrote = <<>>
        /\ "ctl_set" \notin rt.ops
        /\ Doc = IF rt.state.exists THEN rt.state ELSE NoDoc

\* The first invocation for a thread key: no document, the queue polled.
C5_Witness ==
    /\ rt.pc = "returned"
    /\ Resolved
    /\ ~Doc.exists
    /\ "pull" \in rt.ops
    /\ ~rt.human_msg.present
    /\ rt.route = "AI"

\* C6: for a thread key with no control-state document, _get_control_state
\* returns controller AI and last_human_activity None (and _route takes AI as
\* the current controller).  While the invocation has written nothing the
\* document is as it was when read.
C6_DefaultControlState ==
    (PastRead /\ rt.pc # "returned" /\ rt.wrote = <<>> /\ ~Doc.exists) =>
        /\ rt.state.controller = "AI"
        /\ rt.state.last_human_activity = NoTime
        /\ rt.current_controller = "AI"
        /\ ~rt.timed_out

\* The default state read, the queue check under way.
C6_Witness ==
    /\ rt.pc = "batch"
    /\ Resolved
    /\ rt.wrote = <<>>
    /\ ~Doc.exists
    /\ rt.batch # <<>>

\* C7: an invocation that resolves no thread key (no session id, no
\* non-empty thread_key stored, or the lookup raised) returns route AI with
\* no message having made no store or queue call but the thread-key read; it
\* raises only for an unparsable service-account JSON, before any call; and
\* only an invocation with a resolved key goes on to the control state.
C7_NoThreadKeyRoutesToAI ==
    /\ (rt.pc = "returned" /\ ~Resolved) =>
           /\ rt.route = "AI"
           /\ ~rt.message.present
           /\ rt.ops \subseteq {"tk_get"}
           /\ rt.wrote = <<>>
    /\ (rt.pc = "raised" /\ ~Resolved) => rt.ops = {}
    /\ rt.pc \in {"read", "expire", "poll", "batch", "decide"} =>
           /\ rt.session # <<>>
           /\ Resolved
           /\ threadKeys[rt.session] = Key
    /\ rt.ops \cap {"ctl_get", "ctl_set", "pull", "ack"} # {} => Resolved

\* The lookup raised although the session has a key stored.
C7_Witness ==
    /\ rt.pc = "returned"
    /\ ~Resolved
    /\ rt.session # <<>>
    /\ threadKeys[rt.session] # NoKey
    /\ rt.ops = {"tk_get"}
    /\ rt.route = "AI"

\* The invocation in progress follows a ThreadKeyGenerator invocation for
\* the same non-empty session id.
SecondCall ==
    /\ gen.pc = "done"
    /\ gen.session # <<>>
    /\ prevGen.session = gen.session

\* C8 as stated: two successive _get_or_create_key calls with the same
\* non-empty session_id return the same key and the second writes nothing.
C8_Original ==
    SecondCall => gen.key = prevGen.key /\ ~gen.wrote

\* C8 amended: if the first call left the session's record holding the key
\* it returned and the second call's store read succeeds, the second call
\* returns the same key and performs no store write.
C8_Idempotent ==
    (SecondCall /\ gen.before = prevGen.key /\ gen.readOk) =>
        /\ gen.key = prevGen.key
        /\ ~gen.wrote
        /\ threadKeys[gen.session] = prevGen.key

C8_Witness ==
    /\ SecondCall
    /\ gen.before = prevGen.key
    /\ gen.readOk
    /\ gen.key = prevGen.key

\* C9: once the thread_keys record of a session holds a non-empty
\* thread_key, no step of any component changes it.
C9_StoredKeyNeverChanges ==
    [][\A s \in Sessions : threadKeys[s] # NoKey => threadKeys'[s] = threadKeys[s]]_vars

\* C10: when the store read or the store write of _get_or_create_key raised,
\* the call still returns a generated key and the session's record is the
\* same after the call as before it.
C10_FailureLeavesStoreUnchanged ==
    (gen.pc = "done" /\ gen.failed # {}) =>
        /\ gen.key \in Keys
        /\ threadKeys[gen.session] = gen.before

\* Both overlapping invocations found no key for the same session and both
\* wrote: each read the store before either wrote.
BothReadBeforeEitherWrote ==
    \A p \in Procs :
        /\ cgen[p].pc = "done"
        /\ cgen[p].session = S1
        /\ cgen[p].readOk
        /\ cgen[p].before = NoKey
        /\ cgen[p].wrote

\* C11: when two _get_or_create_key invocations for the same unseen session
\* interleave so that both read before either writes, neither fails (each
\* returns the key it generated, no store call raised) and the store ends
\* holding exactly one of the two keys, the one written last; the two
\* returned keys can differ (C11_Witness).
C11_LastWriteWins ==
    BothReadBeforeEitherWrote =>
        /\ \A p \in Procs : cgen[p].key \in Keys /\ cgen[p].failed = {}
        /\ \E p \in Procs :
              /\ cgen[p].lastWriter
              /\ threadKeys[S1] = cgen[p].key
              /\ \A q \in Procs \ {p} : ~cgen[q].lastWriter

\* The race: two different keys returned, the store holding the second's.
C11_Witness ==
    /\ BothReadBeforeEitherWrote
    /\ cgen[1].key # cgen[2].key
    /\ cgen[2].lastWriter
    /\ threadKeys[S1] = cgen[2].key
    /\ threadKeys[S1] # cgen[1].key

\* The stored controller of the session's thread key in SpecOverlap.
StoredController == control[threadKeys[S1]].controller

\* The controller an operator message calls for.
CalledFor(human_msg) ==
    IF is_handoff_message(human_msg.text, DefaultHandoffKeywords) THEN "AI" ELSE "HUMAN"

\* C12 as stated, for turns that do not overlap, and even when no
\* control-state write has raised: after each invocation the stored
\* controller matches the operator message consumed last.
C12_Original ==
    (/\ chist.mode = "serial"
     /\ ~chist.writeRaised
     /\ chist.consumed.present
     /\ \E p \in Procs : crt[p].pc = "returned") =>
        StoredController = CalledFor(chist.consumed)

\* C12 amended: with non-overlapping invocations, after each invocation that
\* consumes an operator message and returns, the stored controller matches
\* that message (HUMAN for an ordinary message, AI for a handoff command),
\* which is the message consumed last; an invocation that consumes none
\* returns the stored controller as its route (unchanged, or AI after a
\* timeout), whatever the last consumed message was.  With overlapping
\* invocations the stored controller can disagree with the message consumed
\* last (C12_Witness).
C12_SerialMatchesConsumed ==
    chist.mode = "serial" =>
        \A p \in Procs :
            crt[p].pc = "returned" =>
                IF crt[p].human_msg.present
                THEN /\ chist.consumed = crt[p].human_msg
                     /\ StoredController = CalledFor(crt[p].human_msg)
                ELSE control[threadKeys[S1]].exists =>
                         StoredController = crt[p].route

\* Two overlapping invocations: process 1 consumed "Hi", process 2 then
\* consumed the handoff "@AI" and wrote AI, and process 1 wrote HUMAN last.
C12_Witness ==
    /\ chist.mode = "overlapping"
    /\ crt[1].pc = "returned"
    /\ crt[2].pc = "returned"
    /\ crt[1].human_msg.text = Hi
    /\ crt[2].human_msg.text = AtAI
    /\ chist.consumed = crt[2].human_msg
    /\ StoredController = "HUMAN"

\* ---- the pollers and the messages they pull
Queued(id) == \E i \in 1..Len(queue) : queue[i].id = id
QueuedAfter(id) == \E i \in 1..Len(queue') : queue'[i].id = id

\* This step is the router's, or the trigger's, for loop dealing with a
\* message that decoded to a JSON object.
RouterExamines ==
    rt.pc = "batch" /\ rt.batch # <<>> /\ Head(rt.batch).shape = "ok" /\ rt' # rt
TriggerExamines ==
    tr.pc = "batch" /\ tr.batch # <<>> /\ TrHead.shape = "ok" /\ tr' # tr
\* ... and its acknowledge call raised.
RouterAckRaised == RouterExamines /\ rt'.pc = "poll"
TriggerAckRaised == TriggerExamines /\ tr'.pc = "raised"

\* C13 as stated: in both pollers every pulled message that decodes is
\* acknowledged when it is examined, whether it is skipped or accepted (an
\* accepted one before it is returned), so it is not redelivered.  (Steps
\* whose acknowledge call itself raised are left aside.)
C13_Original ==
    [][ /\ RouterExamines /\ ~RouterAckRaised => ~QueuedAfter(Head(rt.batch).id)
        /\ TriggerExamines /\ ~TriggerAckRaised => ~QueuedAfter(TrHead.id) ]_vars

\* C13, amended: the router acknowledges every decoded message it examines,
\* and so does the trigger when acknowledge_message is enabled; skipped or
\* accepted, the message is off the subscription when the loop moves on or
\* returns it, unless the acknowledge call itself raised.
C13_DecodedAreAcknowledged ==
    [][ /\ RouterExamines /\ ~RouterAckRaised => ~QueuedAfter(Head(rt.batch).id)
        /\ TriggerExamines /\ ~TriggerAckRaised /\ tr.acknowledge_message
             => ~QueuedAfter(TrHead.id) ]_vars

\* The trigger, with a thread filter and acknowledge_message enabled, has
\* returned the second published message and nothing is left to redeliver.
C13_Witness ==
    /\ tr.pc = "returned"
    /\ tr.acknowledge_message
    /\ tr.parse_google_chat
    /\ TrThreadFilter # <<>>
    /\ tr.result.present
    /\ tr.result.id = 2
    /\ queue = <<>>

\* The payload of a pulled message cannot be decoded: invalid UTF-8, invalid
\* JSON, or JSON that is not the expected object.
Undecodable(m) == m.shape \in {"badjson", "badutf8", "nonobject"}

RouterMeetsUndecodable ==
    rt.pc = "batch" /\ rt.batch # <<>> /\ Undecodable(Head(rt.batch)) /\ rt' # rt
\* The trigger expects an object only when it parses Google Chat events; the
\* step is not one whose acknowledge call raised.
TriggerMeetsUndecodable ==
    /\ tr.pc = "batch" /\ tr.batch # <<>> /\ tr' # tr
    /\ tr.acknowledge_message
    /\ \/ TrHead.shape \in {"badjson", "badutf8"} /\ tr'.pc # "raised"
       \/ TrHead.shape = "nonobject" /\ tr.parse_google_chat

\* C14: a pulled message whose payload cannot be decoded is acknowledged and
\* discarded: it is off the subscription, no error is raised, and the loop
\* goes on with the rest of the batch.
C14_UndecodableAckedAndSkipped ==
    [][ /\ RouterMeetsUndecodable
          => /\ ~QueuedAfter(Head(rt.batch).id)
             /\ rt'.pc = "batch" /\ rt'.batch = Tail(rt.batch)
        /\ TriggerMeetsUndecodable
          => /\ ~QueuedAfter(TrHead.id)
             /\ tr'.pc = "batch" /\ tr'.batch = Tail(tr.batch) ]_vars

\* ---- the bot filter
\* The bot email each consumer is configured with (the trigger trims its
\* input; the router and the worker fall back to the service account).
RouterReturnsBot ==
    /\ rt.human_msg.present
    /\ rt.bot_email # <<>>
    /\ rt.human_msg.sender_email = rt.bot_email
TriggerReturnsBot ==
    /\ tr.pc = "returned"
    /\ tr.result.present
    /\ tr.result.type = "MESSAGE"
    /\ Strip(tr.bot_email) # <<>>
    /\ tr.result.email = Strip(tr.bot_email)
WorkerProcessesBot ==
    /\ wk.handled.present
    /\ wk.bot_email # <<>>
    /\ wk.handled.email = wk.bot_email

\* C15 as stated: whatever the thread filter and the other settings are, the
\* router and the trigger never return, and the worker never processes, a
\* MESSAGE event whose sender email equals the configured bot email.
C15_Original == ~RouterReturnsBot /\ ~TriggerReturnsBot /\ ~WorkerProcessesBot

\* C15, amended: the same, for the trigger when parse_google_chat is enabled;
\* with it disabled the trigger returns the raw payload unfiltered.
C15_BotMessagesNeverReturned ==
    /\ ~RouterReturnsBot
    /\ tr.parse_google_chat => ~TriggerReturnsBot
    /\ ~WorkerProcessesBot

\* The trigger, configured with the bot email and acknowledging nothing, has
\* returned the second message of the subscription: the first one, from the
\* bot, was examined and skipped.
C15_Witness ==
    /\ tr.pc = "returned"
    /\ tr.parse_google_chat
    /\ ~tr.acknowledge_message
    /\ Strip(tr.bot_email) = BotEmail
    /\ tr.result.present
    /\ tr.result.id = 2
    /\ Len(queue) = 2
    /\ queue[1].type = "MESSAGE"
    /\ queue[1].email = BotEmail

\* ---- the trigger's filter
\* The event the trigger returned passes the three tests.
ReturnedEventPasses ==
    /\ tr.result.type = "MESSAGE"
    /\ ~(Strip(tr.bot_email) # <<>> /\ Contains(Strip(tr.bot_email), tr.result.email))
    /\ TrThreadFilter # <<>> => tr.result.thread = TrThreadFilter

\* The thread filter in force: the connected sender_result's thread_name
\* when non-empty, otherwise the trimmed manual thread_filter, otherwise none.
ThreadFilterBySource ==
    /\ tr.sender_thread # <<>> => TrThreadFilter = tr.sender_thread
    /\ tr.sender_thread = <<>> /\ Strip(tr.manual_filter) # <<>>
         => TrThreadFilter = Strip(tr.manual_filter)
    /\ tr.sender_thread = <<>> /\ Strip(tr.manual_filter) = <<>>
         => TrThreadFilter = <<>>

\* C16 as stated: GooglePubSubTrigger returns an event only if it is a
\* MESSAGE, its sender does not match the bot identity, and, when a thread
\* filter is in force, its thread name equals the filter; the filter comes
\* from sender_result, else from the trimmed manual input, else there is none.
C16_Original ==
    /\ tr.pc = "returned" /\ tr.result.present => ReturnedEventPasses
    /\ ThreadFilterBySource

\* C16, amended: the same while parse_google_chat is enabled.
C16_ReturnedEventPassesFilter ==
    /\ tr.pc = "returned" /\ tr.result.present /\ tr.parse_google_chat
         => ReturnedEventPasses
    /\ ThreadFilterBySource

\* With sender_result naming thread t1 and a manual filter naming t2, the
\* trigger has returned the second published message, posted in t1.
C16_Witness ==
    /\ tr.pc = "returned"
    /\ tr.parse_google_chat
    /\ tr.sender_thread = T1
    /\ Strip(tr.manual_filter) = T2
    /\ tr.result.present
    /\ tr.result.id = 2
    /\ tr.result.thread = T1

\* ---- how a poll ends
RouterPolling == rt.pc \in {"poll", "batch"}
TriggerPolling == tr.pc \in {"poll", "batch"}

\* C17: once polling has begun, no error from a pull, from an acknowledge
\* call or from handling a message leaves the poll of either poller: the
\* loop goes on, or the poll ends by returning a message or "no message".
C17_NoErrorLeavesPoll ==
    [][ /\ RouterPolling => rt'.pc \in {"poll", "batch", "decide"}
        /\ TriggerPolling => tr'.pc \in {"poll", "batch", "returned"} ]_vars

\* No message on the subscription would be returned by the router / by the
\* trigger.
NothingForRouter ==
    \A i \in 1..Len(queue) : queue[i].shape # "ok" \/ Filtered(queue[i], rt.bot_email)
NothingForTrigger ==
    \A i \in 1..Len(queue) : ~TrAccepts(queue[i])

\* C18: with a positive budget and no qualifying message available, a poll
\* ends only by returning "no message", and only once the budget has
\* elapsed; this for the router's check_timeout and the trigger's
\* wait_timeout.
C18_NoMessageOnlyAtBudget ==
    [][ /\ RouterPolling /\ rt.check_timeout > 0 /\ NothingForRouter /\ ~RouterPolling'
          => /\ rt'.pc = "decide" /\ ~rt'.human_msg.present
             /\ rt.elapsed >= rt.check_timeout
        /\ TriggerPolling /\ tr.wait_timeout > 0 /\ NothingForTrigger /\ ~TriggerPolling'
          => /\ tr'.pc = "returned" /\ ~tr'.result.present
             /\ tr.elapsed >= tr.wait_timeout ]_vars

\* C19: with wait_timeout = 0 the trigger never returns "no message": however
\* long it has been polling it pulls again, and what it returns is a message
\* it found.
C19_ZeroWaitsForever ==
    tr.wait_timeout = 0 =>
        /\ tr.pc = "returned" => tr.result.present
        /\ tr.pc = "poll" => TrPulls /\ ~ENABLED TTimeout

\* The trigger waits without limit and is about to pull again after
\* MaxElapsed seconds.
C19_Witness ==
    /\ tr.pc = "poll"
    /\ tr.wait_timeout = 0
    /\ tr.elapsed = MaxElapsed

\* ---- GoogleChatSender's thread reference
\* The sender has built its request and the cache is as it was then.
RequestBuilt == snd.pc = "post"
ExplicitThread == snd.thread_name_input # <<>>
CachedThread ==
    /\ snd.thread_key # NoKey
    /\ (snd.space_id \o <<":">> \o KeyText(snd.thread_key)) \in DOMAIN thread_cache

\* C20: send_message chooses the thread reference by strict priority: the
\* explicit thread name (thread.name); else the thread name cached for the
\* space and thread key (thread.name); else the looked-up thread key
\* (thread.threadKey); else no thread field.  The messageReplyOption flag is
\* on the url exactly when a thread field is sent.
C20_ThreadReferencePriority ==
    RequestBuilt =>
        /\ ExplicitThread
             => snd.request.kind = "name" /\ snd.request.name = snd.thread_name_input
        /\ ~ExplicitThread /\ CachedThread
             => /\ snd.request.kind = "name"
                /\ snd.request.name =
                     thread_cache[snd.space_id \o <<":">> \o KeyText(snd.thread_key)]
        /\ ~ExplicitThread /\ ~CachedThread /\ snd.thread_key # NoKey
             => snd.request.kind = "threadKey" /\ snd.request.threadKey = snd.thread_key
        /\ ~ExplicitThread /\ ~CachedThread /\ snd.thread_key = NoKey
             => snd.request.kind = "none"
        /\ snd.request.reply_option <=> snd.request.kind # "none"

\* An explicit thread name t1 is sent although t2 is cached for the space
\* and thread key.
C20_Witness ==
    /\ RequestBuilt
    /\ snd.thread_name_input = T1
    /\ CachedThread
    /\ thread_cache[snd.cache_key] = T2
    /\ snd.request.name = T1

\* ---- GoogleChatSender's thread cache
\* The cache entry for a space and a thread key.
CacheKeyFor(space_id, thread_key) == space_id \o <<":">> \o KeyText(thread_key)

\* This step is a send succeeding / a send building its request.
SendSucceeds == snd.pc = "post" /\ snd'.pc = "returned"
SendBuildsRequest == snd.pc = "idle" /\ snd'.pc = "post"

\* C21: after a successful send with a non-empty thread key whose response
\* carries a thread name, the cache maps (space_id, thread_key) to that name;
\* a later send for a cached space and thread key, without an explicit thread
\* name, replies with thread.name = the cached value, not with the thread
\* key; and an entry leaves the cache only through clear_cache.
C21_CacheReusedUntilCleared ==
    [][ /\ SendSucceeds /\ snd.thread_key # NoKey /\ snd'.thread_name_result # <<>>
          => /\ CacheKeyFor(snd.space_id, snd.thread_key) \in DOMAIN thread_cache'
             /\ thread_cache'[CacheKeyFor(snd.space_id, snd.thread_key)]
                  = snd'.thread_name_result
        /\ /\ SendBuildsRequest /\ ~snd'.clear_cache
           /\ snd'.thread_name_input = <<>> /\ snd'.thread_key # NoKey
           /\ CacheKeyFor(snd'.space_id, snd'.thread_key) \in DOMAIN thread_cache
          => /\ snd'.request.kind = "name"
             /\ snd'.request.name
                  = thread_cache[CacheKeyFor(snd'.space_id, snd'.thread_key)]
        /\ \A k \in DOMAIN thread_cache :
             k \notin DOMAIN thread_cache' => snd.pc = "idle" /\ snd'.clear_cache ]_vars

\* A send without an explicit thread name, for a thread key whose thread
\* name t2 an earlier send cached, replies into t2.
C21_Witness ==
    /\ snd.pc = "post"
    /\ ~snd.clear_cache
    /\ snd.thread_name_input = <<>>
    /\ snd.thread_key # NoKey
    /\ snd.request.kind = "name"
    /\ snd.request.name = T2
    /\ thread_cache[snd.cache_key] = T2

\* C22: when the Chat API call fails, send_message raises after that one
\* attempt, returns no result, and the failing call leaves the thread cache
\* as it was.
C22_FailurePropagatesOnce ==
    [][ /\ snd.pc = "post" /\ snd'.pc # "returned"
          => /\ snd'.pc = "raised"
             /\ snd'.posts = 1
             /\ snd'.thread_name_result = <<>>
             /\ thread_cache' = thread_cache
        /\ snd.pc = "raised" => snd'.pc = "idle" /\ thread_cache' = thread_cache ]_vars

\* The one request of a send failed and the entries cached by earlier sends
\* are still there.
C22_Witness ==
    /\ snd.pc = "raised"
    /\ snd.posts = 1
    /\ snd.cache_key # <<>>
    /\ DOMAIN thread_cache # {}

\* ---- the fields of a control-state record
\* C23: a write of HUMAN sets last_human_activity to the current time; a
\* write of AI changes controller and updated_at only and leaves the
\* record's last_human_activity as it was.
C23_ActivityKeptOnAIWrite ==
    [][ \A k \in Keys :
          control'[k] # control[k] =>
            /\ control'[k].exists
            /\ control'[k].updated_at = now
            /\ control'[k].controller = "HUMAN"
                 => control'[k].last_human_activity = now
            /\ control'[k].controller = "AI"
                 => control'[k].last_human_activity = control[k].last_human_activity ]_vars

\* The timeout wrote AI in this invocation, and the record still carries the
\* time of the operator's last message.
C23_Witness ==
    /\ rt.wrote = <<"AI">>
    /\ rt.timed_out
    /\ control[rt.thread_key].controller = "AI"
    /\ control[rt.thread_key].last_human_activity # NoTime
    /\ control[rt.thread_key].updated_at > control[rt.thread_key].last_human_activity

\* C24: in every reachable state a record with controller HUMAN has
\* last_human_activity set, and across the updates of one thread key's
\* record last_human_activity never decreases.
C24_HumanHasMonotoneActivity ==
    /\ [](\A k \in Keys :
            control[k].controller = "HUMAN" => control[k].last_human_activity # NoTime)
    /\ [][ \A k \in Keys :
             control'[k].last_human_activity >= control[k].last_human_activity ]_vars

\* The operator wrote twice, a minute or more apart: the record is HUMAN
\* and carries the time of the later message.
C24_Witness ==
    /\ rt.pc = "returned"
    /\ rt.wrote = <<"HUMAN">>
    /\ rt.state.controller = "HUMAN"
    /\ control[rt.thread_key].controller = "HUMAN"
    /\ control[rt.thread_key].last_human_activity > rt.state.last_human_activity

\* A record's last_human_activity changes in this step.
ActivityChanges(k) == control'[k].last_human_activity # control[k].last_human_activity

\* C25 as stated: in every reachable state a record whose controller is AI
\* has last_human_activity absent or null, and last_human_activity is set
\* only by a write that makes or keeps the controller HUMAN because of a new
\* human message.
C25_Original ==
    /\ [](\A k \in Keys :
            control[k].controller = "AI" => control[k].last_human_activity = NoTime)
    /\ [][ \A k \in Keys :
             ActivityChanges(k) =>
               /\ control'[k].controller = "HUMAN"
               /\ rt.human_msg.present ]_vars

\* C25, amended: last_human_activity is set only by the write that makes or
\* keeps the controller HUMAN for a new human message that is no handoff
\* command, and then to the current time; a write of AI (handoff or timeout)
\* leaves it as it was, so a record whose controller is AI carries the time
\* of the last such message, or none if there never was one.
C25_ActivitySetOnlyByHumanMessage ==
    [][ \A k \in Keys :
          /\ ActivityChanges(k) =>
               /\ control'[k].controller = "HUMAN"
               /\ control'[k].last_human_activity = now
               /\ k = rt.thread_key
               /\ rt.human_msg.present
               /\ CalledFor(rt.human_msg) = "HUMAN"
          /\ control[k].last_human_activity = NoTime /\ control'[k].controller = "AI"
               => control'[k].last_human_activity = NoTime ]_vars

\* The operator handed the conversation back: the record is AI and still
\* carries the time of the operator's earlier message.
C25_Witness ==
    /\ rt.pc = "returned"
    /\ rt.human_msg.present
    /\ rt.wrote = <<"AI">>
    /\ rt.route = "AI"
    /\ control[rt.thread_key].controller = "AI"
    /\ control[rt.thread_key].last_human_activity # NoTime

\* ---- the helper methods
\* C26: the timeout test is true iff the controller is HUMAN and the time
\* since last_human_activity is strictly greater than human_timeout_minutes;
\* with last_human_activity missing or malformed it is false and the
\* controller stays as it was.
C26_TimeoutIffStrictlyPastLimit ==
    calc.fn = "human_timed_out" =>
        /\ calc.result <=>
               /\ calc.controller = "HUMAN"
               /\ calc.last_human_activity \notin {NoTime, Malformed}
               /\ calc.t - calc.last_human_activity > calc.timeout_minutes
        /\ calc.last_human_activity \in {NoTime, Malformed} =>
               /\ ~calc.result
               /\ calc.current_controller = calc.controller
C26_Witness ==
    /\ calc.fn = "human_timed_out"
    /\ calc.controller = "HUMAN"
    /\ calc.last_human_activity >= 0
    /\ calc.timeout_minutes > 0
    /\ calc.t - calc.last_human_activity = calc.timeout_minutes
    /\ ~calc.result

\* The entries of a comma-separated list: its maximal comma-free stretches,
\* from position i to position j (j = i - 1 for an empty entry).
IsEntry(list, i, j) ==
    /\ i = 1 \/ list[i - 1] = ","
    /\ j = Len(list) \/ list[j + 1] = ","
    /\ \A k \in i..j : list[k] # ","

\* Some non-empty trimmed, lower-cased entry of the list occurs in the
\* lower-cased text.
SomeKeywordOccurs(text, list) ==
    \E i \in 1..(Len(list) + 1), j \in 0..Len(list) :
        /\ i <= j + 1
        /\ IsEntry(list, i, j)
        /\ LET keyword == Lower(Strip(SubSeq(list, i, j)))
           IN  /\ keyword # <<>>
               /\ \E p \in 1..(Len(text) - Len(keyword) + 1) :
                     SubSeq(Lower(text), p, p + Len(keyword) - 1) = keyword

\* C27: _is_handoff_message is true iff some entry of handoff_keywords,
\* trimmed, lower-cased and non-empty, is a substring of the lower-cased
\* text; empty and whitespace-only entries never match.
C27_HandoffIffKeywordOccurs ==
    calc.fn = "is_handoff_message" =>
        (calc.result <=> SomeKeywordOccurs(calc.text, calc.handoff_keywords))

\* A keyword list of nothing but blanks and commas, a non-empty text: no
\* handoff.
C27_Witness ==
    /\ calc.fn = "is_handoff_message"
    /\ calc.handoff_keywords = <<" ", ",", " ", ",">>
    /\ calc.text = Hi \o <<" ">> \o AtAI
    /\ ~calc.result

\* s begins with the characters of prefix, compared one by one.
HasPrefix(s, prefix) ==
    /\ Len(prefix) <= Len(s)
    /\ \A k \in 1..Len(prefix) : s[k] = prefix[k]

\* r is s without its first n characters and without the whitespace that
\* follows them, and nothing else is removed.
IsRestTrimmed(r, s, n) ==
    \E d \in n..Len(s) :
        /\ r = SubSeq(s, d + 1, Len(s))
        /\ \A k \in (n + 1)..d : s[k] \in Whitespace
        /\ r = <<>> \/ r[1] \notin Whitespace

\* C28 as the specification states it: the flag is set iff the text field
\* starts with the configured prefix; then the returned text is the text
\* without prefix and leading whitespace; otherwise the returned text is
\* empty and the input text is as it was.  Read for a configured prefix
\* that is not empty.
C28_Original ==
    calc.fn = "check_takeover" /\ calc.mention_prefix # <<>> =>
        LET flagged == HasPrefix(calc.text, calc.mention_prefix)
        IN  /\ calc.result.operator_takeover <=> flagged
            /\ flagged => IsRestTrimmed(calc.result.returned_text, calc.text,
                                        Len(calc.mention_prefix))
            /\ ~flagged => /\ calc.result.returned_text = <<>>
                           /\ calc.result.input_text = calc.text

\* C28 (amended): the text examined is the text field, or the content field
\* when the text field is empty; the prefix is the configured one, or the
\* default when the configured one is empty.  The flag is set iff that text
\* starts with that prefix, case-sensitively; then the returned text is that
\* text without prefix and leading whitespace; otherwise the returned text
\* is empty and the input text is as it was.
C28_FlagIffExaminedTextHasPrefix ==
    calc.fn = "check_takeover" =>
        LET examined == IF calc.text # <<>> THEN calc.text ELSE calc.content
            prefix == IF calc.mention_prefix # <<>> THEN calc.mention_prefix
                      ELSE DefaultMentionPrefix
            flagged == HasPrefix(examined, prefix)
        IN  /\ calc.result.operator_takeover <=> flagged
            /\ flagged => /\ IsRestTrimmed(calc.result.returned_text, examined,
                                           Len(prefix))
                          /\ calc.result.input_text = calc.result.returned_text
            /\ ~flagged => /\ calc.result.returned_text = <<>>
                           /\ calc.result.input_text = calc.text

\* An operator message with two blanks after the prefix: what is returned is
\* the rest without them.
C28_Witness ==
    /\ calc.fn = "check_takeover"
    /\ calc.mention_prefix = AtH
    /\ calc.text = AtH \o <<" ", " ">> \o Hi
    /\ calc.result.operator_takeover
    /\ calc.result.returned_text = Hi

\* ---- store failures in the router
\* C29: a failing read of the thread key or of the control state never makes
\* the invocation raise; if the invocation ends at that read, it returns
\* route AI with no message.
C29_StoreReadNeverRaises ==
    [][rt.pc \in {"lookup", "read"} =>
          /\ rt'.pc # "raised"
          /\ rt'.pc = "returned" => rt'.route = "AI" /\ ~rt'.message.present]_vars

\* ---- errors in the standalone worker
\* This step is the worker, in either run mode, dealing with a message whose
\* processing raises.
WorkerFailsOnMessage ==
    /\ wk.pc \in {"batch", "callback"}
    /\ wk.batch # <<>>
    /\ WkHead.shape = "nonobject"
    /\ wk' # wk

\* C30: in both run modes, when processing a message raises, the error is
\* logged, the message is acknowledged all the same (it is off the
\* subscription) and the worker goes on.
C30_FailedMessageAcknowledged ==
    [][WorkerFailsOnMessage => ~QueuedAfter(WkHead.id)]_vars

\* ---- stopping the worker
\* C31: after a stop signal the worker starts no new pull, and it has exited
\* only with every message it took for processing acknowledged: none of the
\* messages of its last batch is still on the subscription.
C31_ExitsWithBatchAcknowledged ==
    /\ wk.pc = "exited" => \A id \in wk.taken : ~Queued(id)
    /\ ~wk.running => wk.pc \in {"pull", "batch", "backoff", "exited"}

\* ---- conversation isolation
\* C32: a human message posted in another Chat thread than the one of the
\* session's thread key is never taken by the router invocation for that
\* session as its human message (so it neither changes the session's
\* control state nor is emitted to its customer).
C32_ForeignThreadNeverAccepted ==
    [][(/\ rt.pc = "batch"
        /\ rt.batch # <<>>
        /\ Head(rt.batch).thread # thread_of_key(rt.thread_key))
          => ~(rt'.human_msg.present /\ ~rt.human_msg.present)]_vars

\* ---- what the operator_message output tells
\* C33: when the router returns route HUMAN with no new operator message,
\* its operator_message output differs from the one it gives for route AI
\* with no message.
C33_HumanHoldDistinguishable ==
    (rt.pc = "returned" /\ rt.route = "HUMAN" /\ ~rt.message.present) =>
        operator_message_output(rt) #
            operator_message_output([route |-> "AI", message |-> NoOperatorMessage])

\* ---- accepted operator messages
\* C34: an invocation that acknowledged and accepted a human message ends by
\* returning it on the operator_message output, or, for a handoff command,
\* by returning route AI with controller AI written; it does not end any
\* other way, a failing control-state write included.
C34_AcceptedMessageNotLost ==
    (rt.pc \in {"returned", "raised"} /\ rt.human_msg.present) =>
        /\ rt.pc = "returned"
        /\ \/ /\ rt.message.present
              /\ rt.message.text = rt.human_msg.text
           \/ /\ rt.route = "AI"
              /\ rt.wrote # <<>>
              /\ rt.wrote[Len(rt.wrote)] = "AI"
              /\ control[rt.thread_key].controller = "AI"

\* ---- one message per poll
\* This step is the router's, or the trigger's, poll returning a message.
RouterAcceptStep ==
    rt.pc = "batch" /\ rt.batch # <<>> /\ rt'.human_msg.present /\ ~rt.human_msg.present
TriggerAcceptStep ==
    tr.pc = "batch" /\ tr.batch # <<>> /\ tr'.pc = "returned" /\ tr'.result.present

\* The position of message id in the queue.
QueueIndex(id) == CHOOSE i \in 1..Len(queue) : queue[i].id = id

\* The message qualifies for the router's poll in progress.
RouterQualifies(m) ==
    /\ m.shape = "ok"
    /\ m.type = "MESSAGE"
    /\ ~(rt.bot_email # <<>> /\ Contains(rt.bot_email, m.email))

C36_KeyAgreement ==
    /\ rt.thread_key # NoKey => rt.thread_key = threadKeys[rt.session]
    /\ snd.pc = "post" => snd.session = get_session_id(snd.message, snd.graph)
    /\ snd.pc = "post" /\ snd.read_ok /\ snd.session \in DOMAIN threadKeys
         => snd.thread_key = threadKeys[snd.session]

\* The generator persisted a key for the session and the sender, given a
\* message with a blank session_id and the graph's session id, found it.
C36_Witness ==
    /\ snd.pc = "post"
    /\ snd.read_ok
    /\ snd.message.present /\ snd.message.session_id = <<>>
    /\ snd.graph.present /\ snd.graph.session_id = S1
    /\ snd.thread_key \in Keys
    /\ snd.thread_key = threadKeys[S1]

\* ---------------------------------------------------------------- C37
\* C37: store write ownership.  A step of the router or of the sender leaves
\* the thread_keys collection as it was (a lookup miss creates nothing); the
\* collection changes only in a ThreadKeyGenerator step; and a
\* conversation_control record changes only in a router step, and then only
\* the record under the thread key the router looked up for its session.
C37_StoreWriteOwnership ==
    [][ /\ (rt' # rt \/ snd' # snd) => threadKeys' = threadKeys
        /\ threadKeys' # threadKeys
             => gen.pc # "idle" /\ gen' # gen /\ rt' = rt /\ snd' = snd
        /\ control' # control
             => /\ rt.pc # "idle" /\ rt' # rt /\ gen' = gen /\ snd' = snd
                /\ rt.thread_key # NoKey
                /\ rt.thread_key = threadKeys[rt.session]
                /\ \A k \in Keys \ {rt.thread_key} : control'[k] = control[k] ]_vars

\* The generator persisted the session's key, the router wrote a control
\* record under it, and the sender has read the same key.
C37_Witness ==
    /\ threadKeys[S1] \in Keys
    /\ control[threadKeys[S1]].exists
    /\ snd.pc = "post"
    /\ snd.thread_key = threadKeys[S1]

\* ---------------------------------------------------------------- C38
\* C38: with no bot_email configured the service account's client_email is
\* the bot identity: the human message the router's queue check returns is
\* not from that address, and a Google Chat message GooglePubSubTrigger
\* returns is not from it either.
C38_ClientEmailIsBotIdentity ==
    /\ rt.human_msg.present /\ rt.bot_email \in ClientEmails
         => ~Contains(rt.bot_email, rt.human_msg.sender_email)
    /\ tr.pc = "returned" /\ tr.result.present /\ ~tr.result.raw
       /\ tr.bot_email = <<>>
         => \A client_email \in ClientEmails :
              ~Contains(client_email, tr.result.email)

\* ---------------------------------------------------------------- C39
\* C39: a successful send made with an explicit thread name, answered by the
\* Chat service with that thread, leaves an existing cache entry of the
\* session's (space_id, thread_key) as it was when the entry names another
\* thread.
C39_ExplicitSendKeepsCacheEntry ==
    [][ ( /\ snd.pc = "post" /\ snd'.pc = "returned"
          /\ snd.thread_name_input # <<>>
          /\ snd'.thread_name_result = snd.thread_name_input
          /\ snd.cache_key \in DOMAIN thread_cache
          /\ thread_cache[snd.cache_key] # snd.thread_name_input )
          => /\ snd.cache_key \in DOMAIN thread_cache'
             /\ thread_cache'[snd.cache_key] = thread_cache[snd.cache_key] ]_vars

\* ---------------------------------------------------------------- C40
\* A pulled event _fetch_messages is to return: a MESSAGE event, not from the
\* bot, in the filter's thread when a filter is set.
ReceiverQualifies(m) ==
    /\ m.shape = "ok" /\ m.type = "MESSAGE"
    /\ ~(rcv.bot_email # <<>> /\ Contains(rcv.bot_email, m.email))
    /\ rcv.thread_filter # <<>> => m.thread = rcv.thread_filter

\* C40: a _fetch_messages call that pulled a batch ends with, when
\* acknowledge_messages is on and the acknowledge call did not fail, no
\* message of the pulled batch left on the subscription (accepted, filtered
\* out and unparseable alike); what it returns is, in pull order, exactly the
\* qualifying events of the batch; a pull error returns the empty list and
\* neither a pull error nor an acknowledge error ends the call by raising.
C40_FetchAcknowledgesBatch ==
    /\ rcv.pc \in {"returned", "raised"} /\ rcv.has_pulled
       /\ rcv.acknowledge_messages /\ ~rcv.ack_failed
         => \A i \in 1..Len(rcv.pulled) : ~Queued(rcv.pulled[i].id)
    /\ rcv.pc = "returned" /\ rcv.has_pulled
         => rcv.filtered_messages = SelectSeq(rcv.pulled, ReceiverQualifies)
    /\ rcv.pull_failed => rcv.pc = "returned" /\ rcv.filtered_messages = <<>>
    /\ rcv.ack_failed => rcv.pc = "returned"

====
